---------------------------- MODULE Spec2Model ----------------------------
(***************************************************************************)
(* Model of the export side of the RuntimeMeshImportExport plugin:         *)
(* URuntimeMeshExporter (RuntimeMeshExporter.cpp) driving FAssimpScene /   *)
(* FAssimpNode / FAssimpMesh (AssimpCustom.cpp).                           *)
(*                                                                         *)
(* Threads: the game thread (API calls, the gather ticker, queued game     *)
(* thread tasks) and one worker (Export_Async_AnyThread).  A handler that  *)
(* passes through several phases is split at the phase boundaries; the     *)
(* position of the game thread is gtPc, the position of the worker is      *)
(* workerPc.  Statements between two boundaries are one atomic step.       *)
(*                                                                         *)
(* Arrays are sequences; C++ indices are 0-based, TLA+ indices 1-based, so *)
(* a stored index i designates element i + 1.                              *)
(* Positions are one-dimensional: a transform is x |-> s * x + t with      *)
(* s \in {1, -1}.                                                          *)
(* Strings that are only appended to and tested for emptiness (error, log) *)
(* are sequences of lines.                                                 *)
(***************************************************************************)
EXTENDS Integers, Sequences, FiniteSets, TLC

\* ------------------------------------------------------------ bounds
\* Largest number of nodes in the tree, root included.
MaxNodes == 3
\* Largest number of export-object registrations over all nodes.
MaxObjects == 2
\* Largest number of calls of the plugin's API (AddNode, the four calls
\* that add export objects, Export, Export_Async_Cpp, ImportScene,
\* ImportScene_Async_Cpp), turned down or not.
MaxCalls == 3
\* The codec reports its progress at most this often in one run.
MaxCodecUpdates == 1

\* ------------------------------------------------------------ values
INDEX_NONE == -1

NULL == "nullptr"

\* FTransform, one-dimensional: x |-> s * x + t.
Identity == [s |-> 1, t |-> 0]

\* FTransform::operator*: A * B applies A first, then B.
TransformMul(A, B) == [s |-> A.s * B.s, t |-> B.s * A.t + B.t]

\* FTransform::Inverse.
TransformInverse(A) == [s |-> A.s, t |-> 0 - (A.s * A.t)]

\* FTransform::TransformPosition (affine).
TransformPosition(T, p) == T.s * p + T.t

\* FTransform::TransformVector (direction only, no translation).
TransformVector(T, v) == T.s * v

\* World transforms callers hand to AddNode.
WorldTransforms == { [s |-> -1, t |-> 1] }

\* The hierarchical names callers pass to AddNode and, as the override name,
\* to the calls that add export objects.  An FString or FName is the
\* sequence of its characters.
NodeNames == { <<>>, <<"a", ".", "b">> }
HierarchicalNames == { <<"a", ".", "b">> }

\* Exportable objects (they implement IMeshExportable) and one object that
\* does not.
Exportables == {"e1", "e2"}
NotExportable == "obj"
Objects == Exportables \cup {NotExportable}

\* IMeshExportable::GetHierarchicalNodeName of each exportable.
GetHierarchicalNodeName(e) == IF e = "e1" THEN <<"a">> ELSE <<"b">>

\* Material handles (UMaterialInterface*), nullptr included.
SecValidM1 ==
  [meshToWorld |-> [s |-> 1, t |-> 1], material |-> "M1",
   vertices |-> <<0, 1, 2>>, normals |-> <<1, 1, 1>>, tangents |-> <<1, 1, 1>>,
   textureCoordinates |-> <<0, 1, 2>>, vertexColors |-> <<7, 7, 7>>,
   triangles |-> <<0, 1, 2>>]

SecValidM2 ==
  [meshToWorld |-> Identity, material |-> "M2",
   vertices |-> <<5>>, normals |-> <<1>>, tangents |-> <<1>>,
   textureCoordinates |-> <<0>>, vertexColors |-> <<7>>,
   triangles |-> <<>>]

SecBadNormals ==
  [meshToWorld |-> Identity, material |-> "M1",
   vertices |-> <<0, 1>>, normals |-> <<1>>, tangents |-> <<1, 1>>,
   textureCoordinates |-> <<0, 1>>, vertexColors |-> <<7, 7>>,
   triangles |-> <<0, 1, 0>>]

SecBadTriangles ==
  [meshToWorld |-> Identity, material |-> NULL,
   vertices |-> <<3>>, normals |-> <<1>>, tangents |-> <<1>>,
   textureCoordinates |-> <<0>>, vertexColors |-> <<7>>,
   triangles |-> <<0, 0>>]

\* What IMeshExportable::GetMeshData may answer: the returned flag and the
\* sections written to the out parameter.
Refusal == [accepted |-> FALSE, sections |-> <<>>]

\* IMeshExportable::GetMeshData of each exportable: the answers it may give.
GetMeshData(e) ==
  IF e = "e1"
  THEN { Refusal,
         [accepted |-> TRUE, sections |-> <<SecValidM1>>],
         [accepted |-> TRUE, sections |-> <<SecValidM1, SecBadTriangles>>] }
  ELSE { [accepted |-> TRUE, sections |-> <<>>],
         [accepted |-> TRUE, sections |-> <<SecValidM2, SecValidM1>>],
         [accepted |-> TRUE, sections |-> <<SecBadNormals, SecValidM1>>] }

\* The answers the exportables give during one step: one per exportable.
Responses ==
  { rs \in [Exportables -> UNION { GetMeshData(e) : e \in Exportables }] :
      \A e \in Exportables : rs[e] \in GetMeshData(e) }

\* FTransformCorrection, one-dimensional: a scale factor and one flip flag.
NoCorrection == [scaleFactor |-> 1, bFlipX |-> FALSE]

\* FRuntimeMeshExportParam: the fields the export reads after the pre-checks.
ExportParams ==
  { [bCombineSameMaterial |-> FALSE, correction |-> NoCorrection],
    [bCombineSameMaterial |-> TRUE,
     correction |-> [scaleFactor |-> 2, bFlipX |-> TRUE]] }

\* aiReturn and the error string of Assimp::Exporter after Export(); the
\* last outcome is the codec throwing a std::exception.
CodecOutcomes ==
  { [thrown |-> FALSE, ret |-> "aiReturn_SUCCESS", error |-> <<>>],
    [thrown |-> FALSE, ret |-> "aiReturn_FAILURE", error |-> <<"codec error">>],
    [thrown |-> FALSE, ret |-> "aiReturn_OUTOFMEMORY", error |-> <<>>],
    [thrown |-> TRUE, ret |-> "aiReturn_FAILURE", error |-> <<>>] }

\* ------------------------------------------------------------ state
VARIABLES
  nodes,              \* arena of FAssimpNode; nodes[1] is FAssimpScene::rootNode
  meshes,             \* FAssimpScene::meshes
  materials,          \* FAssimpScene::materials
  uniqueMaterials,    \* FAssimpScene::uniqueMaterials
  aiScene,            \* the aiScene base of FAssimpScene: pointer/count fields
  numObjectsSkipped,  \* FAssimpScene::numObjectsSkipped
  exportLog,          \* FAssimpScene::exportLog: which result's log it points to
  allNodesHelper,     \* FAssimpScene::allNodesHelper
  gather,             \* FAssimpScene async fields: currentNodeIndex,
                      \* numGatherPerTick, delegateProgress, gatherMeshDataTicker
  bIsExporting,       \* URuntimeMeshExporter::bIsExporting
  aiExporterReturn,   \* URuntimeMeshExporter::aiExporterReturn
  aiExporterError,    \* URuntimeMeshExporter::aiExporterError
  asyncResult,        \* URuntimeMeshExporter::asyncResult
  delegates,          \* URuntimeMeshExporter::delegateProgress/GatherDone/Finished
  result,             \* the FRuntimeMeshExportResult of the caller of Export; the
                      \* caller lets go of it when it calls Export_Async_Cpp
  param,              \* the FRuntimeMeshExportParam of the session in flight
  gtPc,               \* position of the game thread inside a handler
  bExportSuccessful,  \* local of PostExportWork, live across its steps
  clearPos,           \* position inside ClearSceneExportData
  gameThreadTasks,    \* AsyncTask(ENamedThreads::GameThread, ...) queue
  workerPc,           \* position of the AnyThread task Export_Async_AnyThread
  crashed,            \* "" or the fatal condition that ended the process
  calls,              \* number of API calls so far
  lastOp,             \* history: the handler that ran last and its outcome
  asked,              \* history: GetMeshData requests of the session
  trace,              \* history: phases of the session in order
  fired,              \* history: the call that started the session and the
                      \* callbacks delivered in it
  delivered,          \* history: the result handed to the last finished callback
  progress,           \* progress notifications: the payloads of the queued
                      \* SendProgress tasks and, as history, the deliveries
  import              \* the call of ImportScene or ImportScene_Async_Cpp in
                      \* flight, its arguments, and the caller's result record

sceneVars == <<nodes, meshes, materials, uniqueMaterials, aiScene,
               numObjectsSkipped, exportLog, allNodesHelper, gather>>

exporterVars == <<bIsExporting, aiExporterReturn, aiExporterError, asyncResult,
                  delegates>>

threadVars == <<gtPc, bExportSuccessful, clearPos, gameThreadTasks, workerPc,
                crashed>>

historyVars == <<calls, lastOp, asked, trace, fired, delivered>>

libraryVars == <<progress, import>>

vars == <<sceneVars, exporterVars, result, param, threadVars, historyVars,
          libraryVars>>


\* ------------------------------------------------------------ the node tree
\* FAssimpNode::FAssimpNode together with the aiNode base constructor.
NewNode(inName, inParent) ==
  [name |-> inName, parent |-> inParent, children |-> <<>>,
   worldTransform |-> Identity, exportObjects |-> <<>>,
   indexGatherNext |-> 0, gatheredExportables |-> <<>>,
   meshRefIndices |-> <<>>,
   mName |-> <<>>, mTransformation |-> Identity,
   mNumMeshes |-> 0, mMeshes |-> NULL, mNumChildren |-> 0, mChildren |-> NULL]

\* TArray::GetData: the address of the allocation, nullptr when there is none.
GetData(array, address) == IF Len(array) = 0 THEN NULL ELSE address

\* FString::ParseIntoArray(out, TEXT("."), true): split at "." and cull the
\* empty pieces.  piece is the piece being read, out the pieces so far.
RECURSIVE ParseIntoArrayFrom(_, _, _)
ParseIntoArrayFrom(str, piece, out) ==
  LET closed == IF piece = <<>> THEN out ELSE Append(out, piece)
  IN IF str = <<>> THEN closed
     ELSE IF Head(str) = "." THEN ParseIntoArrayFrom(Tail(str), <<>>, closed)
     ELSE ParseIntoArrayFrom(Tail(str), Append(piece, Head(str)), out)

ParseIntoArray(str) == ParseIntoArrayFrom(str, <<>>, <<>>)

\* TArray::FindByPredicate over the children of a node: the first child of
\* that name, 0 when there is none.
RECURSIVE FindChildByName(_, _, _)
FindChildByName(ns, childList, nodeName) ==
  IF childList = <<>> THEN 0
  ELSE IF ns[Head(childList)].name = nodeName THEN Head(childList)
  ELSE FindChildByName(ns, Tail(childList), nodeName)

\* FindOrCreateNode creating a child for every segment, without looking for
\* a child of that name.
RECURSIVE FindOrCreateNode_AlwaysCreates(_, _, _)
FindOrCreateNode_AlwaysCreates(ns, this, nodePathRelative) ==
  IF Len(nodePathRelative) > 0
  THEN LET created == Len(ns) + 1
       IN FindOrCreateNode_AlwaysCreates(
            Append([ns EXCEPT ![this].children = Append(@, created)],
                   NewNode(Head(nodePathRelative), this)),
            created, Tail(nodePathRelative))
  ELSE [nodes |-> ns, node |-> this]

\* FAssimpNode::FindOrCreateNode on node this of arena ns: the arena after
\* the call and the node returned.
RECURSIVE FindOrCreateNode(_, _, _)
FindOrCreateNode(ns, this, nodePathRelative) ==
  IF Len(nodePathRelative) > 0
  THEN LET nodeName == Head(nodePathRelative)
           foundNode == FindChildByName(ns, ns[this].children, nodeName)
           created == Len(ns) + 1
       IN IF foundNode # 0
          THEN FindOrCreateNode(ns, foundNode, Tail(nodePathRelative))
          ELSE FindOrCreateNode(
                 Append([ns EXCEPT ![this].children = Append(@, created)],
                        NewNode(nodeName, this)),
                 created, Tail(nodePathRelative))
  ELSE [nodes |-> ns, node |-> this]

\* FAssimpNode::GetHierarchicalName.
RECURSIVE GetHierarchicalName(_, _)
GetHierarchicalName(ns, n) ==
  IF ns[n].parent # 0
  THEN GetHierarchicalName(ns, ns[n].parent) \o <<".">> \o ns[n].name
  ELSE <<"r", "o", "o", "t">>

\* FAssimpNode::GetNodesRecursive: appends the subtree of n, pre-order, to
\* outNodes.
RECURSIVE GetNodesRecursive(_, _, _)
RECURSIVE GetNodesOfChildren(_, _, _)
GetNodesRecursive(ns, n, outNodes) ==
  GetNodesOfChildren(ns, ns[n].children, Append(outNodes, n))

GetNodesOfChildren(ns, childList, outNodes) ==
  IF childList = <<>> THEN outNodes
  ELSE GetNodesOfChildren(ns, Tail(childList),
                          GetNodesRecursive(ns, Head(childList), outNodes))

\* Number of export-object registrations over all nodes.
RECURSIVE NumRegistered(_)
NumRegistered(ns) ==
  IF ns = <<>> THEN 0
  ELSE Len(Head(ns).exportObjects) + NumRegistered(Tail(ns))

\* The arena stays within the bounds of the model.
WithinBounds(ns) == Len(ns) <= MaxNodes /\ NumRegistered(ns) <= MaxObjects

\* ------------------------------------------------------------ initial state
EmptyResult ==
  [bSuccess |-> FALSE, exportLog |-> <<>>, error |-> <<>>,
   numObjectsSkipped |-> 0]

NoParam == [bCombineSameMaterial |-> FALSE, correction |-> NoCorrection]

UnboundAiScene ==
  [mRootNode |-> NULL, mMeshes |-> NULL, mNumMeshes |-> 0,
   mMaterials |-> NULL, mNumMaterials |-> 0]

\* The record a caller of Export holds before the call: left over from
\* earlier use.
StaleResult ==
  [bSuccess |-> TRUE, exportLog |-> <<"stale log">>,
   error |-> <<"stale error">>, numObjectsSkipped |-> 1]

NothingFired ==
  [session |-> "", gatherDone |-> 0, gatherDoneAfter |-> <<>>, finished |-> 0,
   finishedThread |-> "", finishedWhileExporting |-> FALSE]

\* No progress notification is queued and none has been delivered. The
\* deliveries are those of the session or import in flight.
NoProgress == [queued |-> <<>>, delivered |-> {}]

\* FRuntimeMeshImportExportProgress, with the thread the notification is
\* sent from.
ProgressUpdate(type, current, max, from) ==
  [type |-> type, current |-> current, max |-> max, from |-> from]

\* delegateProgress.ExecuteIfBound(progress) on the thread named thread.
ExecuteIfBound(pr, bound, update, thread) ==
  IF bound
  THEN [pr EXCEPT !.delivered =
          @ \cup { [type |-> update.type, current |-> update.current,
                    max |-> update.max, from |-> update.from,
                    on |-> thread] }]
  ELSE pr

\* SendProgress_AnyThread executing the delegate on whatever thread it is
\* called on.
SendProgress_AnyThread_ExecutesInPlace(pr, bound, update) ==
  ExecuteIfBound(pr, bound, update, update.from)

\* URuntimeMeshImportExportLibrary::SendProgress_AnyThread called on the
\* thread update.from: the delegate runs at once on the game thread, and
\* from any other thread a game thread task gets a copy of the delegate and
\* of the payload.
SendProgress_AnyThread(pr, bound, update) ==
  IF update.from = "game thread"
  THEN ExecuteIfBound(pr, bound, update, update.from)
  ELSE [pr EXCEPT !.queued = Append(@, [bound |-> bound, update |-> update])]

\* The game thread task queue after n calls of SendProgress_AnyThread from
\* another thread.
RECURSIVE WithProgressTasks(_, _)
WithProgressTasks(tasks, n) ==
  IF n = 0 THEN tasks
  ELSE WithProgressTasks(Append(tasks, "SendProgress"), n - 1)

\* SendProgress_AnyThread for each update of the sequence updates.
RECURSIVE SendAllProgress(_, _, _)
SendAllProgress(pr, bound, updates) ==
  IF updates = <<>> THEN pr
  ELSE SendAllProgress(SendProgress_AnyThread(pr, bound, Head(updates)),
                       bound, Tail(updates))

\* No import has been requested: the caller's result record holds what an
\* earlier use left in it.
NoImport == [pc |-> "none"]

Init ==
  /\ nodes = << NewNode(<<>>, 0) >>
  /\ meshes = <<>>
  /\ materials = <<>>
  /\ uniqueMaterials = <<>>
  /\ aiScene = UnboundAiScene
  /\ numObjectsSkipped = 0
  /\ exportLog = NULL
  /\ allNodesHelper = <<>>
  /\ gather = [currentNodeIndex |-> 0, numGatherPerTick |-> -1,
               delegateProgress |-> FALSE, gatherMeshDataTicker |-> FALSE]
  /\ bIsExporting = FALSE
  /\ aiExporterReturn = "aiReturn_FAILURE"
  /\ aiExporterError = <<>>
  /\ asyncResult = EmptyResult
  /\ delegates = [progress |-> FALSE, gatherDone |-> FALSE, finished |-> FALSE]
  /\ result = StaleResult
  /\ param = NoParam
  /\ gtPc = "idle"
  /\ bExportSuccessful = FALSE
  /\ clearPos = 0
  /\ gameThreadTasks = <<>>
  /\ workerPc = "none"
  /\ crashed = ""
  /\ calls = 0
  /\ lastOp = "construct"
  /\ asked = <<>>
  /\ trace = <<>>
  /\ fired = NothingFired
  /\ delivered = EmptyResult
  /\ progress = NoProgress
  /\ import = NoImport

\* The game thread is free to start a handler.
GameThreadFree == gtPc = "idle" /\ crashed = ""

\* ------------------------------------------------------------ scene mutation
\* The body of AddExportObject once the exporting check has passed.
AddExportObjectTo(ns, exportable, bOverrideNode, hierarchicalNodeName) ==
  LET nodeList == ParseIntoArray(IF bOverrideNode THEN hierarchicalNodeName
                                 ELSE GetHierarchicalNodeName(exportable))
      found == FindOrCreateNode(ns, 1, nodeList)
  IN [found.nodes EXCEPT ![found.node].exportObjects = Append(@, exportable)]

\* The loop of AddExportObjects.
RECURSIVE AddExportObjectsTo(_, _, _, _)
AddExportObjectsTo(ns, exportables, bOverrideNode, hierarchicalNodeName) ==
  IF exportables = <<>> THEN ns
  ELSE AddExportObjectsTo(
         AddExportObjectTo(ns, Head(exportables), bOverrideNode,
                           hierarchicalNodeName),
         Tail(exportables), bOverrideNode, hierarchicalNodeName)

\* The loop of AddObjectsIfExportable: objects that do not implement the
\* interface are left out.
RECURSIVE AddObjectsIfExportableTo(_, _, _, _)
AddObjectsIfExportableTo(ns, objects, bOverrideNode, hierarchicalNodeName) ==
  IF objects = <<>> THEN ns
  ELSE AddObjectsIfExportableTo(
         IF Head(objects) \in Exportables
         THEN AddExportObjectTo(ns, Head(objects), bOverrideNode,
                                hierarchicalNodeName)
         ELSE ns,
         Tail(objects), bOverrideNode, hierarchicalNodeName)

\* A scene-mutation call leaves everything but the tree alone.
MutationFrame ==
  /\ calls < MaxCalls
  /\ calls' = calls + 1
  /\ UNCHANGED <<meshes, materials, uniqueMaterials, aiScene, numObjectsSkipped,
              exportLog, allNodesHelper, gather, exporterVars, result, param,
              threadVars, asked, trace, fired, delivered, libraryVars>>

\* AddNode without its check of bIsExporting.
AddNode_NoExportingCheck(hierarchicalName, nodeTransformWS) ==
  /\ GameThreadFree
  /\ LET found == FindOrCreateNode(nodes, 1, ParseIntoArray(hierarchicalName))
     IN /\ WithinBounds(found.nodes)
        /\ nodes' = [found.nodes EXCEPT
                       ![found.node].worldTransform = nodeTransformWS]
        /\ lastOp' = "AddNode"
  /\ MutationFrame

\* URuntimeMeshExporter::AddNode.
AddNode(hierarchicalName, nodeTransformWS) ==
  /\ GameThreadFree
  /\ IF bIsExporting
     THEN /\ lastOp' = "AddNode:exporting"
          /\ UNCHANGED nodes
     ELSE LET found == FindOrCreateNode(nodes, 1,
                                        ParseIntoArray(hierarchicalName))
          IN /\ WithinBounds(found.nodes)
             /\ nodes' = [found.nodes EXCEPT
                            ![found.node].worldTransform = nodeTransformWS]
             /\ lastOp' = "AddNode"
  /\ MutationFrame

\* AddExportObject without its check of bIsExporting.
AddExportObject_NoExportingCheck(exportable, bOverrideNode, hierarchicalNodeName) ==
  /\ GameThreadFree
  /\ LET added == AddExportObjectTo(nodes, exportable, bOverrideNode,
                                    hierarchicalNodeName)
     IN /\ WithinBounds(added)
        /\ nodes' = added
        /\ lastOp' = "AddExportObject"
  /\ MutationFrame

\* URuntimeMeshExporter::AddExportObject.
AddExportObject(exportable, bOverrideNode, hierarchicalNodeName) ==
  /\ GameThreadFree
  /\ IF bIsExporting
     THEN /\ lastOp' = "AddExportObject:exporting"
          /\ UNCHANGED nodes
     ELSE LET added == AddExportObjectTo(nodes, exportable, bOverrideNode,
                                         hierarchicalNodeName)
          IN /\ WithinBounds(added)
             /\ nodes' = added
             /\ lastOp' = "AddExportObject"
  /\ MutationFrame

\* URuntimeMeshExporter::AddExportObjects.
AddExportObjects(exportables, bOverrideNode, hierarchicalNodeName) ==
  /\ GameThreadFree
  /\ IF bIsExporting
     THEN /\ lastOp' = "AddExportObjects:exporting"
          /\ UNCHANGED nodes
     ELSE LET added == AddExportObjectsTo(nodes, exportables, bOverrideNode,
                                          hierarchicalNodeName)
          IN /\ WithinBounds(added)
             /\ nodes' = added
             /\ lastOp' = "AddExportObjects"
  /\ MutationFrame

\* URuntimeMeshExporter::AddObjectIfExportable.
AddObjectIfExportable(object, bOverrideNode, hierarchicalNodeName) ==
  /\ GameThreadFree
  /\ IF bIsExporting
     THEN /\ lastOp' = "AddObjectIfExportable:exporting"
          /\ UNCHANGED nodes
     ELSE IF object \notin Exportables
     THEN /\ lastOp' = "AddObjectIfExportable:false"
          /\ UNCHANGED nodes
     ELSE LET added == AddExportObjectTo(nodes, object, bOverrideNode,
                                         hierarchicalNodeName)
          IN /\ WithinBounds(added)
             /\ nodes' = added
             /\ lastOp' = "AddObjectIfExportable:true"
  /\ MutationFrame

\* URuntimeMeshExporter::AddObjectsIfExportable.
AddObjectsIfExportable(objects, bOverrideNode, hierarchicalNodeName) ==
  /\ GameThreadFree
  /\ IF bIsExporting
     THEN /\ lastOp' = "AddObjectsIfExportable:exporting"
          /\ UNCHANGED nodes
     ELSE LET added == AddObjectsIfExportableTo(nodes, objects, bOverrideNode,
                                                hierarchicalNodeName)
          IN /\ WithinBounds(added)
             /\ nodes' = added
             /\ lastOp' = "AddObjectsIfExportable"
  /\ MutationFrame

\* The argument lists callers pass to the plural calls.
ExportableLists == { <<"e1">>, <<"e2", "e1">> }
ObjectLists == { <<"obj">>, <<"e1", "obj">> }

SceneMutation ==
  \/ \E h \in NodeNames, t \in WorldTransforms : AddNode(h, t)
  \/ \E e \in Exportables, o \in BOOLEAN, h \in HierarchicalNames :
       AddExportObject(e, o, h)
  \/ \E es \in ExportableLists, o \in BOOLEAN, h \in HierarchicalNames :
       AddExportObjects(es, o, h)
  \/ \E x \in Objects, o \in BOOLEAN, h \in HierarchicalNames :
       AddObjectIfExportable(x, o, h)
  \/ \E xs \in ObjectLists, o \in BOOLEAN, h \in HierarchicalNames :
       AddObjectsIfExportable(xs, o, h)

\* ------------------------------------------------------------ strings
\* URuntimeMeshImportExportLibrary::NewLineAndAppend: the text goes to a line
\* of its own.
NewLineAndAppend(appendTo, append) == appendTo \o append

\* ValidateMeshSection without its check of the vertex colours.
ValidateMeshSection_NoColorCheck(section) ==
  LET numVertices == Len(section.vertices)
      normalsBad == Len(section.normals) # numVertices
      tangentsBad == Len(section.tangents) # numVertices
      coordsBad == Len(section.textureCoordinates) # numVertices
      trianglesBad == Len(section.triangles) % 3 # 0
  IN [bMeshValid |-> ~(normalsBad \/ tangentsBad \/ coordsBad \/ trianglesBad),
      lines |-> (IF normalsBad THEN <<"normals not equal vertices">> ELSE <<>>)
             \o (IF tangentsBad THEN <<"tangents not equal vertices">> ELSE <<>>)
             \o (IF coordsBad THEN <<"textureCoordinates not equal vertices">>
                 ELSE <<>>)
             \o (IF trianglesBad THEN <<"triangles not dividable by 3">>
                 ELSE <<>>)]

\* ------------------------------------------------------------ gathering
\* FAssimpNode::ValidateMeshSection: the verdict and the lines it logs.
ValidateMeshSection(section) ==
  LET numVertices == Len(section.vertices)
      normalsBad == Len(section.normals) # numVertices
      tangentsBad == Len(section.tangents) # numVertices
      colorsBad == Len(section.vertexColors) # numVertices
      coordsBad == Len(section.textureCoordinates) # numVertices
      trianglesBad == Len(section.triangles) % 3 # 0
  IN [bMeshValid |-> ~(normalsBad \/ tangentsBad \/ colorsBad \/ coordsBad
                       \/ trianglesBad),
      lines |-> (IF normalsBad THEN <<"normals not equal vertices">> ELSE <<>>)
             \o (IF tangentsBad THEN <<"tangents not equal vertices">> ELSE <<>>)
             \o (IF colorsBad THEN <<"vertexColors not equal vertices">>
                 ELSE <<>>)
             \o (IF coordsBad THEN <<"textureCoordinates not equal vertices">>
                 ELSE <<>>)
             \o (IF trianglesBad THEN <<"triangles not dividable by 3">>
                 ELSE <<>>)]

\* The validation loop of GatherMeshData, from the last section down to the
\* first: bAllSectionsValid and the lines logged.
RECURSIVE ValidateAllSections(_, _)
ValidateAllSections(sections, sectionIndex) ==
  IF sectionIndex < 0 THEN [bAllSectionsValid |-> TRUE, lines |-> <<>>]
  ELSE LET one == ValidateMeshSection(sections[sectionIndex + 1])
           rest == ValidateAllSections(sections, sectionIndex - 1)
       IN [bAllSectionsValid |-> one.bMeshValid /\ rest.bAllSectionsValid,
           lines |-> one.lines
                  \o (IF one.bMeshValid THEN <<>>
                      ELSE <<"section failed validation">>)
                  \o rest.lines]

\* GatherVerdict validating the first section only.
GatherVerdict_FirstSectionOnly(response) ==
  IF ~response.accepted THEN "refused"
  ELSE IF Len(response.sections) = 0 THEN "no sections"
  ELSE IF ~ValidateMeshSection(response.sections[1]).bMeshValid
  THEN "invalid sections"
  ELSE "buffered"

\* What GatherMeshData does with the answer of one export object:
\* "buffered", or the reason it skips the object.
GatherVerdict(response) ==
  IF ~response.accepted THEN "refused"
  ELSE IF Len(response.sections) = 0 THEN "no sections"
  ELSE IF ~ValidateAllSections(response.sections,
                               Len(response.sections) - 1).bAllSectionsValid
  THEN "invalid sections"
  ELSE "buffered"

\* One iteration of the loop of GatherMeshData on node n.  g carries the
\* arena, the skipped counter, the lines logged, the answers of the
\* exportables and the requests made.
GatherOne(g, n) ==
  LET index == g.nodes[n].indexGatherNext
      object == g.nodes[n].exportObjects[index + 1]
      response == g.responses[object]
      verdict == GatherVerdict(response)
      checked == ValidateAllSections(response.sections,
                                     Len(response.sections) - 1)
      request == [node |-> n, index |-> index, object |-> object,
                  response |-> response]
  IN [g EXCEPT
        !.nodes[n].indexGatherNext = index + 1,
        !.nodes[n].gatheredExportables =
            IF verdict = "buffered" THEN Append(@, response.sections) ELSE @,
        !.numObjectsSkipped = IF verdict = "buffered" THEN @ ELSE @ + 1,
        !.lines = @ \o (CASE verdict = "refused" -> <<"refused">>
                          [] verdict = "no sections" -> <<"no sections">>
                          [] verdict = "invalid sections" ->
                               checked.lines \o <<"invalid sections, skipped">>
                          [] OTHER -> <<>>),
        !.asked = Append(@, request),
        !.numGathered = @ + 1]

RECURSIVE GatherLoop(_, _, _)
GatherLoop(g, n, endIndex) ==
  IF g.nodes[n].indexGatherNext < endIndex
  THEN GatherLoop(GatherOne(g, n), n, endIndex)
  ELSE g

Min(a, b) == IF a < b THEN a ELSE b

\* GatherMeshData asking every export object left on the node, whatever
\* numToGather says.
GatherMeshData_IgnoresBudget(g, n, bGatherAll, numToGather) ==
  GatherLoop([g EXCEPT !.numGathered = 0], n, Len(g.nodes[n].exportObjects))

\* FAssimpNode::GatherMeshData on node n; numGathered of the result is the
\* value returned.
GatherMeshData(g, n, bGatherAll, numToGather) ==
  LET startIndex == IF bGatherAll THEN 0 ELSE g.nodes[n].indexGatherNext
      numObjects == Len(g.nodes[n].exportObjects)
      endIndex == Min(IF bGatherAll THEN numObjects
                      ELSE startIndex + numToGather, numObjects)
  IN GatherLoop([g EXCEPT !.numGathered = 0], n, endIndex)

\* The loop of PrepareSceneForExport over allNodesHelper (bulk gathering).
RECURSIVE GatherAllNodes(_, _)
GatherAllNodes(g, nodeList) ==
  IF nodeList = <<>> THEN g
  ELSE GatherAllNodes(GatherMeshData(g, Head(nodeList), TRUE, 0),
                      Tail(nodeList))

\* The while loop of PrepareSceneForExport_Update ending the gathering at
\* the first exhausted node.
RECURSIVE UpdateLoop_EndsAtFirstNode(_, _)
UpdateLoop_EndsAtFirstNode(g, numToGather) ==
  IF numToGather = 0 THEN g
  ELSE LET after == GatherMeshData(g, g.allNodesHelper[g.currentNodeIndex + 1],
                                   FALSE, numToGather)
       IN IF after.numGathered = 0
          THEN [after EXCEPT !.currentNodeIndex = @ + 1, !.finished = TRUE]
          ELSE UpdateLoop_EndsAtFirstNode(after,
                                          numToGather - after.numGathered)

\* The while loop of PrepareSceneForExport_Update leaving a node after one
\* call of GatherMeshData, its export objects all asked or not.
RECURSIVE UpdateLoop_LeavesNodeAfterOneCall(_, _)
UpdateLoop_LeavesNodeAfterOneCall(g, numToGather) ==
  IF numToGather = 0 THEN g
  ELSE LET after == GatherMeshData(g, g.allNodesHelper[g.currentNodeIndex + 1],
                                   FALSE, numToGather)
       IN IF after.currentNodeIndex + 1 >= Len(after.allNodesHelper)
          THEN [after EXCEPT !.currentNodeIndex = @ + 1,
                             !.finished = TRUE]
          ELSE UpdateLoop_LeavesNodeAfterOneCall(
                 [after EXCEPT !.currentNodeIndex = @ + 1],
                 numToGather - after.numGathered)

\* The while loop of PrepareSceneForExport_Update; finished is set when the
\* last node is exhausted.
RECURSIVE UpdateLoop(_, _)
UpdateLoop(g, numToGather) ==
  IF numToGather = 0 THEN g
  ELSE LET after == GatherMeshData(g, g.allNodesHelper[g.currentNodeIndex + 1],
                                   FALSE, numToGather)
       IN IF after.numGathered = 0
          THEN IF after.currentNodeIndex + 1 >= Len(after.allNodesHelper)
               THEN [after EXCEPT !.currentNodeIndex = @ + 1,
                                  !.finished = TRUE]
               ELSE UpdateLoop([after EXCEPT !.currentNodeIndex = @ + 1],
                               numToGather)
          ELSE UpdateLoop(after, numToGather - after.numGathered)

\* The gathering state of an action that hands out the answers rs.
GatherStart(rs) ==
  [nodes |-> nodes, numObjectsSkipped |-> numObjectsSkipped, lines |-> <<>>,
   responses |-> rs, asked |-> asked, numGathered |-> 0,
   allNodesHelper |-> allNodesHelper,
   currentNodeIndex |-> gather.currentNodeIndex, finished |-> FALSE]

\* FExportableMeshSection::Append adding the other section's triangle
\* indices as they are.
SectionAppend_NoOffset(this, other) ==
  [this EXCEPT
     !.vertices = @ \o other.vertices,
     !.normals = @ \o other.normals,
     !.tangents = @ \o other.tangents,
     !.textureCoordinates = @ \o other.textureCoordinates,
     !.vertexColors = @ \o other.vertexColors,
     !.triangles = @ \o other.triangles]

\* ------------------------------------------------------------ building
\* FExportableMeshSection::Append; the caller has checked the materials.
SectionAppend(this, other) ==
  LET triangleOffset == Len(this.vertices)
  IN [this EXCEPT
        !.vertices = @ \o other.vertices,
        !.normals = @ \o other.normals,
        !.tangents = @ \o other.tangents,
        !.textureCoordinates = @ \o other.textureCoordinates,
        !.vertexColors = @ \o other.vertexColors,
        !.triangles = @ \o [i \in 1..Len(other.triangles) |->
                              other.triangles[i] + triangleOffset]]

\* The transform loop of CreateAssimpMeshesFromMeshData for one section.
TransformSection(section, worldTransform) ==
  LET objectSpaceToNodeSpace ==
        TransformMul(section.meshToWorld, TransformInverse(worldTransform))
  IN [section EXCEPT
        !.vertices = [i \in 1..Len(section.vertices) |->
                        TransformPosition(objectSpaceToNodeSpace, @[i])],
        !.normals = [i \in 1..Len(section.vertices) |->
                       TransformVector(objectSpaceToNodeSpace, @[i])],
        !.tangents = [i \in 1..Len(section.vertices) |->
                        TransformVector(objectSpaceToNodeSpace, @[i])]]

\* TMap::Find on the map of material sections (kept in insertion order):
\* the position of the key, 0 when absent.
RECURSIVE MapFind(_, _, _)
MapFind(map, key, from) ==
  IF from > Len(map) THEN 0
  ELSE IF map[from].key = key THEN from
  ELSE MapFind(map, key, from + 1)

\* MapAddSection combining sections whatever bCombineSameMaterial says.
MapAddSection_AlwaysCombines(map, section, bCombineSameMaterial) ==
  LET found == MapFind(map, section.material, 1)
      withKey == IF found = 0
                 THEN Append(map, [key |-> section.material, value |-> <<>>])
                 ELSE map
      at == IF found = 0 THEN Len(withKey) ELSE found
  IN IF Len(withKey[at].value) > 0
     THEN [withKey EXCEPT ![at].value[1] = SectionAppend(@, section)]
     ELSE [withKey EXCEPT ![at].value = Append(@, section)]

\* MapAddSection putting the entry of a new handle before the others.
MapAddSection_NewKeyFirst(map, section, bCombineSameMaterial) ==
  LET found == MapFind(map, section.material, 1)
      withKey == IF found = 0
                 THEN <<[key |-> section.material, value |-> <<>>]>> \o map
                 ELSE map
      at == IF found = 0 THEN 1 ELSE found
  IN IF bCombineSameMaterial /\ Len(withKey[at].value) > 0
     THEN [withKey EXCEPT ![at].value[1] = SectionAppend(@, section)]
     ELSE [withKey EXCEPT ![at].value = Append(@, section)]

\* One section entering mapMaterialSections.
MapAddSection(map, section, bCombineSameMaterial) ==
  LET found == MapFind(map, section.material, 1)
      withKey == IF found = 0
                 THEN Append(map, [key |-> section.material, value |-> <<>>])
                 ELSE map
      at == IF found = 0 THEN Len(withKey) ELSE found
  IN IF bCombineSameMaterial /\ Len(withKey[at].value) > 0
     THEN [withKey EXCEPT ![at].value[1] = SectionAppend(@, section)]
     ELSE [withKey EXCEPT ![at].value = Append(@, section)]

\* The first loop of CreateAssimpMeshesFromMeshData: all sections of all
\* gathered exportables, in order.
RECURSIVE MapAddSections(_, _, _, _)
MapAddSections(map, sections, worldTransform, bCombineSameMaterial) ==
  IF sections = <<>> THEN map
  ELSE MapAddSections(
         MapAddSection(map, TransformSection(Head(sections), worldTransform),
                       bCombineSameMaterial),
         Tail(sections), worldTransform, bCombineSameMaterial)

RECURSIVE MapAddExportables(_, _, _, _)
MapAddExportables(map, gathered, worldTransform, bCombineSameMaterial) ==
  IF gathered = <<>> THEN map
  ELSE MapAddExportables(
         MapAddSections(map, Head(gathered), worldTransform,
                        bCombineSameMaterial),
         Tail(gathered), worldTransform, bCombineSameMaterial)

\* TArray::Find on uniqueMaterials: the 0-based index, INDEX_NONE when absent.
RECURSIVE FindMaterial(_, _, _)
FindMaterial(unique, material, from) ==
  IF from > Len(unique) THEN INDEX_NONE
  ELSE IF unique[from] = material THEN from - 1
  ELSE FindMaterial(unique, material, from + 1)

\* FColor::ReinterpretAsLinear: the channel over 255.
ReinterpretAsLinear(c) == [numerator |-> c, denominator |-> 255]

\* The aiMaterial created for a handle seen for the first time.
NewMaterial(material) ==
  [name |-> IF material # NULL THEN material ELSE "Unknown",
   twoSided |-> TRUE, shininess |-> 0, textureDiffuse |-> "T_Chair_M.jpg"]

\* The FAssimpMesh created from a section without the zeroed bitangents.
NewMesh_NoBitangents(section, materialIndex) ==
  LET numVertices == Len(section.vertices)
      numFaces == Len(section.triangles) \div 3
  IN [mPrimitiveTypes |-> "aiPrimitiveType_TRIANGLE",
      mMaterialIndex |-> materialIndex,
      vertices |-> section.vertices,
      normals |-> section.normals,
      tangents |-> section.tangents,
      bitangents |-> <<>>,
      vertexColors |-> [i \in 1..numVertices |->
                          ReinterpretAsLinear(section.vertexColors[i])],
      numUVComponents |-> 2,
      textureCoordinates |-> [i \in 1..numVertices |->
                                [x |-> section.textureCoordinates[i], z |-> 0]],
      faces |-> [f \in 1..numFaces |->
                   [mNumIndices |-> 3,
                    mIndices |-> << section.triangles[3 * (f - 1) + 1],
                                    section.triangles[3 * (f - 1) + 2],
                                    section.triangles[3 * (f - 1) + 3] >>]],
      mNumVertices |-> 0, mVertices |-> NULL, mNumFaces |-> 0, mFaces |-> NULL]

\* The FAssimpMesh created from a section, the aiMesh pointers still null.
NewMesh(section, materialIndex) ==
  LET numVertices == Len(section.vertices)
      numFaces == Len(section.triangles) \div 3
  IN [mPrimitiveTypes |-> "aiPrimitiveType_TRIANGLE",
      mMaterialIndex |-> materialIndex,
      vertices |-> section.vertices,
      normals |-> section.normals,
      tangents |-> section.tangents,
      bitangents |-> [i \in 1..numVertices |-> 0],
      vertexColors |-> [i \in 1..numVertices |->
                          ReinterpretAsLinear(section.vertexColors[i])],
      numUVComponents |-> 2,
      textureCoordinates |-> [i \in 1..numVertices |->
                                [x |-> section.textureCoordinates[i], z |-> 0]],
      faces |-> [f \in 1..numFaces |->
                   [mNumIndices |-> 3,
                    mIndices |-> << section.triangles[3 * (f - 1) + 1],
                                    section.triangles[3 * (f - 1) + 2],
                                    section.triangles[3 * (f - 1) + 3] >>]],
      mNumVertices |-> 0, mVertices |-> NULL, mNumFaces |-> 0, mFaces |-> NULL]

\* EmitMesh giving every mesh a material of its own.
EmitMesh_NoMaterialReuse(b, n, section) ==
  [b EXCEPT
     !.nodes[n].meshRefIndices = Append(@, Len(b.meshes)),
     !.meshes = Append(@, NewMesh(section, Len(b.uniqueMaterials))),
     !.uniqueMaterials = Append(@, section.material),
     !.materials = Append(@, NewMaterial(section.material))]

\* The second loop of CreateAssimpMeshesFromMeshData for one section of node
\* n.  b carries the arena, the pools and the lines logged.
EmitMesh(b, n, section) ==
  LET foundMaterialIndex == FindMaterial(b.uniqueMaterials, section.material, 1)
      isNew == foundMaterialIndex = INDEX_NONE
      materialIndex == IF isNew THEN Len(b.uniqueMaterials)
                       ELSE foundMaterialIndex
  IN [b EXCEPT
        !.nodes[n].meshRefIndices = Append(@, Len(b.meshes)),
        !.meshes = Append(@, NewMesh(section, materialIndex)),
        !.uniqueMaterials = IF isNew THEN Append(@, section.material) ELSE @,
        !.materials = IF isNew THEN Append(@, NewMaterial(section.material))
                      ELSE @]

RECURSIVE EmitSections(_, _, _)
EmitSections(b, n, sections) ==
  IF sections = <<>> THEN b
  ELSE EmitSections(EmitMesh(b, n, Head(sections)), n, Tail(sections))

RECURSIVE EmitElements(_, _, _)
EmitElements(b, n, map) ==
  IF map = <<>> THEN b
  ELSE EmitElements(EmitSections(b, n, Head(map).value), n, Tail(map))

\* FAssimpNode::CreateAssimpMeshesFromMeshData on node n.
CreateAssimpMeshesFromMeshData(b, n, exportParam) ==
  LET mapMaterialSections ==
        MapAddExportables(<<>>, b.nodes[n].gatheredExportables,
                          b.nodes[n].worldTransform,
                          exportParam.bCombineSameMaterial)
  IN EmitElements([b EXCEPT !.nodes[n].gatheredExportables = <<>>], n,
                  mapMaterialSections)

\* FAssimpNode::ProcessGatheredData_Internal on node n: the node itself, then
\* its children from the last to the first.
RECURSIVE ProcessGatheredData_Internal(_, _, _)
RECURSIVE ProcessChildren(_, _, _, _)
ProcessGatheredData_Internal(b, n, exportParam) ==
  LET created == CreateAssimpMeshesFromMeshData(b, n, exportParam)
      logged == [created EXCEPT !.lines = Append(@, "node has meshes")]
      done == ProcessChildren(logged, logged.nodes[n].children,
                              Len(logged.nodes[n].children) - 1, exportParam)
  IN IF Len(done.nodes[n].children) = 0
        /\ Len(done.nodes[n].meshRefIndices) = 0
     THEN [done EXCEPT !.lines = Append(@, "no children and no meshes")]
     ELSE done

ProcessChildren(b, childList, childIndex, exportParam) ==
  IF childIndex < 0 THEN b
  ELSE ProcessChildren(
         ProcessGatheredData_Internal(b, childList[childIndex + 1],
                                      exportParam),
         childList, childIndex - 1, exportParam)

\* FAssimpNode::ProcessGatheredData_Recursive on the root node.
ProcessGatheredData_Recursive(exportParam) ==
  LET start == [nodes |-> nodes, meshes |-> meshes, materials |-> materials,
                uniqueMaterials |-> uniqueMaterials,
                lines |-> <<"begin processing gathered data">>]
      done == ProcessGatheredData_Internal(start, 1, exportParam)
  IN [done EXCEPT !.lines = Append(@, "end processing gathered data")]

\* ------------------------------------------------------------ bind, unbind
\* URuntimeMeshImportExportLibrary::FTransformToAiTransform: the matrix of
\* the transform, a1 its scale entry and a4 its translation entry.
FTransformToAiTransform(transform) == [a1 |-> transform.s, a4 |-> transform.t]

\* RelativeTransform applying the correction to every node, not to the root
\* alone.
RelativeTransform_CorrectsEveryNode(ns, n, exportParam) ==
  LET relativeTransform ==
        IF ns[n].parent # 0
        THEN TransformMul(TransformInverse(ns[ns[n].parent].worldTransform),
                          ns[n].worldTransform)
        ELSE ns[n].worldTransform
  IN [relativeTransform EXCEPT
        !.s = @ * exportParam.correction.scaleFactor
                * (IF exportParam.correction.bFlipX THEN -1 ELSE 1)]

\* The transform FAssimpNode::SetDataAndPtrsToParentClass gives node n.
RelativeTransform(ns, n, exportParam) ==
  IF ns[n].parent # 0
  THEN TransformMul(TransformInverse(ns[ns[n].parent].worldTransform),
                    ns[n].worldTransform)
  ELSE [ns[n].worldTransform EXCEPT
          !.s = @ * exportParam.correction.scaleFactor
                  * (IF exportParam.correction.bFlipX THEN -1 ELSE 1)]

\* FAssimpNode::SetDataAndPtrsToParentClass, one node.
BindNode(ns, n, exportParam) ==
  [ns[n] EXCEPT
     !.mName = ns[n].name,
     !.mTransformation =
         FTransformToAiTransform(RelativeTransform(ns, n, exportParam)),
     !.mNumMeshes = Len(ns[n].meshRefIndices),
     !.mMeshes = GetData(ns[n].meshRefIndices, "meshRefIndices"),
     !.mNumChildren = Len(ns[n].children),
     !.mChildren = GetData(ns[n].children, "children")]

\* FAssimpMesh::SetDataAndPtrsToParentClass.
BindMesh(mesh) ==
  [mesh EXCEPT
     !.mNumVertices = Len(mesh.vertices),
     !.mVertices = GetData(mesh.vertices, "vertices"),
     !.mNumFaces = Len(mesh.faces),
     !.mFaces = GetData(mesh.faces, "faces")]

\* FAssimpScene::SetDataAndPtrsToParentClass_EntireScene: the aiScene
\* fields; the recursion from the root reaches every node of the arena.
BoundAiScene ==
  [mRootNode |-> "rootNode",
   mMeshes |-> GetData(meshes, "meshes"), mNumMeshes |-> Len(meshes),
   mMaterials |-> GetData(materials, "materials"),
   mNumMaterials |-> Len(materials)]

\* FAssimpNode::ClearParentDataAndPtrs.
ClearNodeParentDataAndPtrs(node) ==
  [node EXCEPT !.mNumChildren = 0, !.mChildren = NULL,
               !.mNumMeshes = 0, !.mMeshes = NULL]

\* FAssimpNode::ClearMeshData leaving indexGatherNext where the session
\* brought it.
ClearNodeMeshData_KeepsIndex(node) ==
  [node EXCEPT !.gatheredExportables = <<>>, !.meshRefIndices = <<>>]

\* FAssimpNode::ClearMeshData.
ClearNodeMeshData(node) ==
  [node EXCEPT !.indexGatherNext = 0, !.gatheredExportables = <<>>,
               !.meshRefIndices = <<>>]

\* ------------------------------------------------------------ export: checks
\* What the platform file layer answers in PreExportWork, and the
\* bOverrideExisting field of the parameter.
PreChecks ==
  [fileExists : BOOLEAN, bOverrideExisting : BOOLEAN,
   canCreateDirectory : BOOLEAN]

\* PreExportWork without its check of bIsExporting.
PreExportWork_NoBusyCheck(res, pre) ==
  LET emptied == [res EXCEPT !.error = <<>>, !.exportLog = <<>>]
  IN IF ~pre.bOverrideExisting /\ pre.fileExists
     THEN [passed |-> FALSE, reset |-> TRUE,
           result |-> [emptied EXCEPT
                         !.error = NewLineAndAppend(
                                     @, <<"File does already exist!">>)]]
     ELSE IF ~pre.canCreateDirectory
     THEN [passed |-> FALSE, reset |-> TRUE,
           result |-> [emptied EXCEPT
                         !.error = NewLineAndAppend(
                                     @, <<"Could not create directory">>)]]
     ELSE [passed |-> TRUE, reset |-> TRUE, result |-> emptied]

\* PreExportWork without its check for an existing file.
PreExportWork_NoFileCheck(res, pre) ==
  IF bIsExporting
  THEN [passed |-> FALSE, reset |-> FALSE,
        result |-> [res EXCEPT
                      !.error = NewLineAndAppend(@, <<"Already exporting!">>)]]
  ELSE LET emptied == [res EXCEPT !.error = <<>>, !.exportLog = <<>>]
       IN IF ~pre.canCreateDirectory
          THEN [passed |-> FALSE, reset |-> TRUE,
                result |-> [emptied EXCEPT
                              !.error = NewLineAndAppend(
                                          @, <<"Could not create directory">>)]]
          ELSE [passed |-> TRUE, reset |-> TRUE, result |-> emptied]

\* URuntimeMeshExporter::PreExportWork on the result record res: whether it
\* returns true, whether it got past the exporting check (and so reset the
\* codec status) and the result record it leaves.
PreExportWork(res, pre) ==
  IF bIsExporting
  THEN [passed |-> FALSE, reset |-> FALSE,
        result |-> [res EXCEPT
                      !.error = NewLineAndAppend(@, <<"Already exporting!">>)]]
  ELSE LET emptied == [res EXCEPT !.error = <<>>, !.exportLog = <<>>]
       IN IF ~pre.bOverrideExisting /\ pre.fileExists
          THEN [passed |-> FALSE, reset |-> TRUE,
                result |-> [emptied EXCEPT
                              !.error = NewLineAndAppend(
                                          @, <<"File does already exist!">>)]]
          ELSE IF ~pre.canCreateDirectory
          THEN [passed |-> FALSE, reset |-> TRUE,
                result |-> [emptied EXCEPT
                              !.error = NewLineAndAppend(
                                          @, <<"Could not create directory">>)]]
          ELSE [passed |-> TRUE, reset |-> TRUE, result |-> emptied]

\* The assignments PreExportWork makes to the exporter and the scene.
PreExportWorkEffects(pw, logTarget) ==
  /\ aiExporterReturn' = IF pw.reset THEN "aiReturn_FAILURE"
                         ELSE aiExporterReturn
  /\ aiExporterError' = IF pw.reset THEN <<>> ELSE aiExporterError
  /\ exportLog' = IF pw.passed THEN logTarget ELSE exportLog
  /\ bIsExporting' = (bIsExporting \/ pw.passed)

\* FAssimpScene::WriteToLogWithNewLine: the record res after the scene has
\* logged lines, res being the record named target.
Logged(res, target, lines) ==
  IF exportLog = target THEN [res EXCEPT !.exportLog = @ \o lines] ELSE res

\* The session history starts afresh when a session is accepted.
NewSessionHistory(op) ==
  /\ lastOp' = op
  /\ delivered' = EmptyResult
  /\ asked' = <<>>
  /\ trace' = <<>>
  /\ fired' = [NothingFired EXCEPT !.session = op]
  /\ progress' = [progress EXCEPT !.delivered = {}]

\* The outcome of a request that PreExportWork turned down.
Rejected(op) == IF bIsExporting THEN op \o ":busy" ELSE op \o ":precheck"

\* ------------------------------------------------------------ export: sync
\* URuntimeMeshExporter::Export up to the return of PreExportWork.
Export(exportParam, pre) ==
  LET pw == PreExportWork(result, pre)
  IN /\ GameThreadFree
     /\ calls < MaxCalls
     /\ calls' = calls + 1
     /\ PreExportWorkEffects(pw, "result")
     /\ IF pw.passed
        THEN /\ result' = pw.result
             /\ param' = exportParam
             /\ gtPc' = "sync_gather"
             /\ NewSessionHistory("Export")
        ELSE /\ result' = [pw.result EXCEPT !.bSuccess = FALSE]
             /\ lastOp' = Rejected("Export")
             /\ UNCHANGED <<param, gtPc, asked, trace, fired, delivered,
                            progress>>
     /\ UNCHANGED <<nodes, meshes, materials, uniqueMaterials, aiScene,
                    numObjectsSkipped, allNodesHelper, gather, asyncResult,
                    delegates, bExportSuccessful, clearPos, gameThreadTasks,
                    workerPc, crashed, import>>

\* FAssimpScene::PrepareSceneForExport up to the end of gathering, the
\* exportables answering with one of responses.
SyncGatherFrom(responses) ==
  /\ gtPc = "sync_gather" /\ crashed = ""
  /\ \E rs \in responses :
       LET helper == GetNodesRecursive(nodes, 1, allNodesHelper)
           g == GatherAllNodes(
                  [GatherStart(rs) EXCEPT !.numObjectsSkipped = 0,
                                          !.allNodesHelper = helper],
                  helper)
       IN /\ allNodesHelper' = helper
          /\ nodes' = g.nodes
          /\ numObjectsSkipped' = g.numObjectsSkipped
          /\ asked' = g.asked
          /\ result' = Logged(result, "result",
                              <<"begin gather mesh data">> \o g.lines
                              \o <<"end gather mesh data">>)
  /\ gtPc' = "sync_build"
  /\ trace' = Append(trace, "gather")
  /\ lastOp' = "PrepareSceneForExport:gather"
  /\ UNCHANGED <<meshes, materials, uniqueMaterials, aiScene, exportLog, gather,
                 exporterVars, param, bExportSuccessful, clearPos,
                 gameThreadTasks, workerPc, crashed, calls, fired,
                 delivered, libraryVars>>

\* FAssimpScene::PrepareSceneForExport up to the end of gathering.
SyncGather == SyncGatherFrom(Responses)

\* FAssimpScene::PrepareSceneForExport, ProcessGatheredData_Recursive.
SyncBuild ==
  /\ gtPc = "sync_build" /\ crashed = ""
  /\ LET b == ProcessGatheredData_Recursive(param)
     IN /\ nodes' = b.nodes
        /\ meshes' = b.meshes
        /\ materials' = b.materials
        /\ uniqueMaterials' = b.uniqueMaterials
        /\ result' = Logged(result, "result", b.lines)
  /\ gtPc' = "sync_bind"
  /\ trace' = Append(trace, "build")
  /\ lastOp' = "PrepareSceneForExport:build"
  /\ UNCHANGED <<aiScene, numObjectsSkipped, exportLog, allNodesHelper, gather,
                 exporterVars, param, bExportSuccessful, clearPos,
                 gameThreadTasks, workerPc, crashed, calls, asked, fired,
                 delivered, libraryVars>>

\* FAssimpScene::PrepareSceneForExport, SetDataAndPtrsToParentClass_EntireScene,
\* and the two lines Export logs after it.
SyncBind ==
  /\ gtPc = "sync_bind" /\ crashed = ""
  /\ aiScene' = BoundAiScene
  /\ nodes' = [n \in DOMAIN nodes |-> BindNode(nodes, n, param)]
  /\ meshes' = [m \in DOMAIN meshes |-> BindMesh(meshes[m])]
  /\ result' = Logged(result, "result",
                      <<"scene does contain meshes",
                        "scene does contain materials">>)
  /\ gtPc' = "sync_codec"
  /\ trace' = Append(trace, "bind")
  /\ lastOp' = "PrepareSceneForExport:bind"
  /\ UNCHANGED <<materials, uniqueMaterials, numObjectsSkipped, exportLog,
                 allNodesHelper, gather, exporterVars, param, bExportSuccessful,
                 clearPos, gameThreadTasks, workerPc, crashed, calls, asked,
                 fired, delivered, libraryVars>>

\* The codec call of Export without the catch block: the exception leaves
\* Export.
SyncCodec_Uncaught ==
  /\ gtPc = "sync_codec" /\ crashed = ""
  /\ \E outcome \in CodecOutcomes :
       IF outcome.thrown
       THEN /\ result' = Logged(result, "result", <<"begin export scene">>)
            /\ gtPc' = "idle"
            /\ lastOp' = "Export:returned"
            /\ UNCHANGED <<aiExporterReturn, aiExporterError>>
       ELSE /\ result' = Logged(result, "result",
                                <<"begin export scene", "end export scene">>)
            /\ aiExporterReturn' = outcome.ret
            /\ aiExporterError' = outcome.error
            /\ gtPc' = "sync_post"
            /\ lastOp' = "Export:codec returned"
  /\ trace' = Append(trace, "codec")
  /\ UNCHANGED <<sceneVars, bIsExporting, asyncResult, delegates, param,
                 bExportSuccessful, clearPos, gameThreadTasks, workerPc,
                 crashed, calls, asked, fired, delivered, libraryVars>>

\* URuntimeMeshExporter::Export, the try block around Assimp::Exporter::Export
\* and the read of the error string.
SyncCodec ==
  /\ gtPc = "sync_codec" /\ crashed = ""
  /\ \E outcome \in CodecOutcomes :
       /\ IF outcome.thrown
          THEN /\ result' = [Logged(result, "result",
                                    <<"begin export scene", "exception thrown">>)
                               EXCEPT !.error = NewLineAndAppend(
                                                  @, <<"exception thrown">>)]
               /\ UNCHANGED aiExporterReturn
          ELSE /\ result' = Logged(result, "result",
                                   <<"begin export scene", "end export scene">>)
               /\ aiExporterReturn' = outcome.ret
       /\ aiExporterError' = outcome.error
       /\ lastOp' = IF outcome.thrown THEN "Export:codec threw"
                    ELSE "Export:codec returned"
  /\ gtPc' = "sync_post"
  /\ trace' = Append(trace, "codec")
  /\ UNCHANGED <<sceneVars, bIsExporting, asyncResult, delegates, param,
                 bExportSuccessful, clearPos, gameThreadTasks, workerPc,
                 crashed, calls, asked, fired, delivered, libraryVars>>

\* PostExportWork adding the scene's counter to the count the record came
\* in with.
PostExportWork_AddsSkipped(res) ==
  LET withCodecError ==
        IF aiExporterError # <<>>
        THEN NewLineAndAppend(res.error, aiExporterError) ELSE res.error
      message ==
        IF aiExporterReturn = "aiReturn_OUTOFMEMORY"
        THEN <<"Export failed: out of memory!">>
        ELSE IF aiExporterReturn = "aiReturn_FAILURE"
        THEN <<"Export failed!">>
        ELSE <<>>
  IN [result |-> [res EXCEPT !.error = NewLineAndAppend(withCodecError, message),
                             !.numObjectsSkipped = @ + numObjectsSkipped],
      bExportSuccessful |-> /\ aiExporterReturn = "aiReturn_SUCCESS"
                            /\ withCodecError = <<>>]

\* PostExportWork evaluating the codec status alone, whatever error text the
\* record holds.
PostExportWork_IgnoresErrorText(res) ==
  LET withCodecError ==
        IF aiExporterError # <<>>
        THEN NewLineAndAppend(res.error, aiExporterError) ELSE res.error
      message ==
        IF aiExporterReturn = "aiReturn_OUTOFMEMORY"
        THEN <<"Export failed: out of memory!">>
        ELSE IF aiExporterReturn = "aiReturn_FAILURE"
        THEN <<"Export failed!">>
        ELSE <<>>
  IN [result |-> [res EXCEPT !.error = NewLineAndAppend(withCodecError, message),
                             !.numObjectsSkipped = numObjectsSkipped],
      bExportSuccessful |-> aiExporterReturn = "aiReturn_SUCCESS"]

\* ------------------------------------------------------------ export: post
\* URuntimeMeshExporter::PostExportWork up to the call of
\* ClearSceneExportData: the result record it leaves and bExportSuccessful.
PostExportWork(res) ==
  LET withCodecError ==
        IF aiExporterError # <<>>
        THEN NewLineAndAppend(res.error, aiExporterError) ELSE res.error
      evaluated ==
        IF aiExporterReturn = "aiReturn_OUTOFMEMORY"
        THEN [error |-> NewLineAndAppend(withCodecError,
                                         <<"Export failed: out of memory!">>),
              bExportSuccessful |-> FALSE]
        ELSE IF aiExporterReturn = "aiReturn_FAILURE"
        THEN [error |-> NewLineAndAppend(withCodecError, <<"Export failed!">>),
              bExportSuccessful |-> FALSE]
        ELSE IF withCodecError # <<>>
        THEN [error |-> withCodecError, bExportSuccessful |-> FALSE]
        ELSE IF aiExporterReturn = "aiReturn_SUCCESS"
        THEN [error |-> withCodecError, bExportSuccessful |-> TRUE]
        ELSE [error |-> withCodecError, bExportSuccessful |-> FALSE]
  IN [result |-> [res EXCEPT !.error = evaluated.error,
                             !.numObjectsSkipped = numObjectsSkipped],
      bExportSuccessful |-> evaluated.bExportSuccessful]

\* FAssimpNode::ClearExportData clearing the root node and none of its
\* descendants.
ClearExportData_RootOnly(ns) ==
  [n \in DOMAIN ns |->
     IF n = 1 THEN ClearNodeMeshData(ClearNodeParentDataAndPtrs(ns[n]))
     ELSE ns[n]]

\* FAssimpNode::ClearExportData from the root: ClearParentDataAndPtrs and
\* ClearMeshData on every node of the arena.
ClearExportData(ns) ==
  [n \in DOMAIN ns |-> ClearNodeMeshData(ClearNodeParentDataAndPtrs(ns[n]))]

\* Position of ClearSceneExportData after its last step.
ClearEnd == 3

\* ClearSceneExportData whose ClearMeshData leaves the mesh pool as it is.
ClearSceneExportData_KeepsMeshes ==
  /\ clearPos < ClearEnd
  /\ clearPos' = clearPos + 1
  /\ trace' = IF clearPos + 1 = ClearEnd THEN Append(trace, "unbind")
              ELSE trace
  /\ IF clearPos = 0
     THEN /\ gather' = [gather EXCEPT !.delegateProgress = FALSE,
                                      !.currentNodeIndex = 0,
                                      !.numGatherPerTick = -1]
          /\ aiScene' = UnboundAiScene
          /\ UNCHANGED <<nodes, meshes, materials, uniqueMaterials>>
     ELSE IF clearPos = 1
     THEN /\ uniqueMaterials' = <<>>
          /\ materials' = <<>>
          /\ UNCHANGED <<nodes, meshes, gather, aiScene>>
     ELSE /\ nodes' = ClearExportData(nodes)
          /\ UNCHANGED <<meshes, materials, uniqueMaterials, gather, aiScene>>

\* FAssimpScene::ClearSceneExportData, the step at clearPos: 0 resets the
\* async fields and nulls the aiScene fields (ClearParentDataAndPtrs), 1 is
\* FAssimpScene::ClearMeshData, 2 is rootNode->ClearExportData().
ClearSceneExportData ==
  /\ clearPos < ClearEnd
  /\ clearPos' = clearPos + 1
  /\ trace' = IF clearPos + 1 = ClearEnd THEN Append(trace, "unbind")
              ELSE trace
  /\ IF clearPos = 0
     THEN /\ gather' = [gather EXCEPT !.delegateProgress = FALSE,
                                      !.currentNodeIndex = 0,
                                      !.numGatherPerTick = -1]
          /\ aiScene' = UnboundAiScene
          /\ UNCHANGED <<nodes, meshes, materials, uniqueMaterials>>
     ELSE IF clearPos = 1
     THEN /\ uniqueMaterials' = <<>>
          /\ meshes' = <<>>
          /\ materials' = <<>>
          /\ UNCHANGED <<nodes, gather, aiScene>>
     ELSE /\ nodes' = ClearExportData(nodes)
          /\ UNCHANGED <<meshes, materials, uniqueMaterials, gather, aiScene>>

\* PostExportWork up to the call of ClearSceneExportData, in Export.
SyncPost ==
  /\ gtPc = "sync_post" /\ crashed = ""
  /\ LET post == PostExportWork(result)
     IN /\ result' = post.result
        /\ bExportSuccessful' = post.bExportSuccessful
  /\ exportLog' = NULL
  /\ clearPos' = 0
  /\ gtPc' = "sync_clear"
  /\ lastOp' = "PostExportWork"
  /\ UNCHANGED <<nodes, meshes, materials, uniqueMaterials, aiScene,
                 numObjectsSkipped, allNodesHelper, gather, exporterVars, param,
                 gameThreadTasks, workerPc, crashed, calls, asked, trace,
                 fired, delivered, libraryVars>>

\* ClearSceneExportData called by PostExportWork, in Export.
SyncClear ==
  /\ gtPc = "sync_clear" /\ crashed = ""
  /\ ClearSceneExportData
  /\ lastOp' = "PostExportWork:clear"
  /\ UNCHANGED <<numObjectsSkipped, exportLog, allNodesHelper, exporterVars,
                 result, param, gtPc, bExportSuccessful, gameThreadTasks,
                 workerPc, crashed, calls, asked, fired, delivered,
                 libraryVars>>

\* The end of PostExportWork and the return of Export.
SyncReturn ==
  /\ gtPc = "sync_clear" /\ crashed = ""
  /\ clearPos = ClearEnd
  /\ aiExporterError' = <<>>
  /\ aiExporterReturn' = "aiReturn_FAILURE"
  /\ bIsExporting' = FALSE
  /\ result' = [result EXCEPT !.bSuccess = bExportSuccessful]
  /\ gtPc' = "idle"
  /\ trace' = Append(trace, "post")
  /\ lastOp' = "Export:returned"
  /\ UNCHANGED <<sceneVars, asyncResult, delegates, param, bExportSuccessful,
                 clearPos, gameThreadTasks, workerPc, crashed, calls, asked,
                 fired, delivered, libraryVars>>

\* ------------------------------------------------------------ export: async
\* FRuntimeMeshExportAsyncParam values callers pass.
AsyncParams ==
  { [numGatherPerTick |-> 0,
     param |-> [bCombineSameMaterial |-> TRUE,
                correction |-> [scaleFactor |-> 2, bFlipX |-> TRUE]]],
    [numGatherPerTick |-> 2,
     param |-> [bCombineSameMaterial |-> FALSE, correction |-> NoCorrection]] }

\* URuntimeMeshExporter::Export_Async_Cpp with
\* FAssimpScene::PrepareSceneForExport_Async_Start.
Export_Async_Cpp(asyncParam, pre) ==
  LET pw == PreExportWork(asyncResult, pre)
  IN /\ GameThreadFree
     /\ calls < MaxCalls
     /\ calls' = calls + 1
     /\ PreExportWorkEffects(pw, "asyncResult")
     /\ IF pw.passed
        THEN /\ asyncResult' = [pw.result EXCEPT
                                  !.exportLog = @ \o <<"begin gather mesh data">>]
             /\ delegates' = [progress |-> TRUE, gatherDone |-> TRUE,
                              finished |-> TRUE]
             /\ numObjectsSkipped' = 0
             /\ gather' = [currentNodeIndex |-> 0,
                           numGatherPerTick |->
                             IF asyncParam.numGatherPerTick < 1 THEN 1
                             ELSE asyncParam.numGatherPerTick,
                           delegateProgress |-> TRUE,
                           gatherMeshDataTicker |-> TRUE]
             /\ allNodesHelper' = GetNodesRecursive(nodes, 1, allNodesHelper)
             /\ param' = asyncParam.param
             /\ NewSessionHistory("Export_Async_Cpp")
        ELSE /\ asyncResult' = [pw.result EXCEPT !.bSuccess = FALSE]
             /\ delivered' = asyncResult'
             /\ lastOp' = Rejected("Export_Async_Cpp")
             /\ UNCHANGED <<delegates, numObjectsSkipped, gather,
                            allNodesHelper, param, asked, trace, fired,
                            progress>>
     /\ result' = StaleResult
     /\ UNCHANGED <<nodes, meshes, materials, uniqueMaterials, aiScene, gtPc,
                    bExportSuccessful, clearPos, gameThreadTasks, workerPc,
                    crashed, import>>

\* FGatherMeshDataTicker::Tick, that is PrepareSceneForExport_Update, up to
\* the call of onGameThreadPrepareFinished (the lambda of Export_Async_Cpp)
\* when gathering ends, and whole otherwise.
Tick ==
  /\ GameThreadFree
  /\ gather.gatherMeshDataTicker
  /\ IF gather.numGatherPerTick <= 0
     THEN /\ crashed' = "check(numGatherPerTick > 0)"
          /\ lastOp' = "Tick:fatal"
          /\ UNCHANGED <<nodes, numObjectsSkipped, gather, asyncResult,
                         gameThreadTasks, workerPc, gtPc, asked, trace, fired,
                         progress>>
     ELSE IF gather.currentNodeIndex >= Len(allNodesHelper)
     THEN /\ crashed' = "checkNoEntry()"
          /\ lastOp' = "Tick:fatal"
          /\ UNCHANGED <<nodes, numObjectsSkipped, gather, asyncResult,
                         gameThreadTasks, workerPc, gtPc, asked, trace, fired,
                         progress>>
     ELSE \E rs \in Responses :
            LET g == UpdateLoop(GatherStart(rs), gather.numGatherPerTick)
            IN /\ nodes' = g.nodes
               /\ numObjectsSkipped' = g.numObjectsSkipped
               /\ asked' = g.asked
               /\ gather' = [gather EXCEPT
                               !.currentNodeIndex = g.currentNodeIndex]
               /\ UNCHANGED crashed
               /\ IF g.finished
                  THEN /\ gameThreadTasks' =
                            Append(gameThreadTasks, "ResetTicker")
                       /\ asyncResult' =
                            Logged(asyncResult, "asyncResult",
                                   g.lines \o <<"end gather mesh data">>)
                       /\ fired' = IF delegates.gatherDone
                                   THEN [fired EXCEPT
                                           !.gatherDone = @ + 1,
                                           !.gatherDoneAfter = g.asked]
                                   ELSE fired
                       /\ workerPc' = "queued"
                       /\ gtPc' = "update_tail"
                       /\ trace' = Append(trace, "gather")
                       /\ lastOp' = "Tick:gather done"
                       /\ UNCHANGED progress
                  ELSE /\ asyncResult' =
                            Logged(asyncResult, "asyncResult", g.lines)
                       /\ progress' =
                            ExecuteIfBound(
                              progress, gather.delegateProgress,
                              ProgressUpdate("GatheringMeshs",
                                             g.currentNodeIndex,
                                             Len(allNodesHelper),
                                             "game thread"),
                              "game thread")
                       /\ lastOp' = "Tick"
                       /\ UNCHANGED <<gameThreadTasks, fired, workerPc, gtPc,
                                      trace>>
  /\ UNCHANGED <<meshes, materials, uniqueMaterials, aiScene, exportLog,
                 allNodesHelper, bIsExporting, aiExporterReturn,
                 aiExporterError, delegates, result, param, bExportSuccessful,
                 clearPos, calls, delivered, import>>

\* The last statement of PrepareSceneForExport_Update, the progress
\* notification, after gathering has ended and the worker task is queued.
TickTail ==
  /\ gtPc = "update_tail" /\ crashed = ""
  /\ gtPc' = "idle"
  /\ progress' = ExecuteIfBound(
                   progress, gather.delegateProgress,
                   ProgressUpdate("GatheringMeshs", gather.currentNodeIndex,
                                  Len(allNodesHelper), "game thread"),
                   "game thread")
  /\ lastOp' = "Tick:returned"
  /\ UNCHANGED <<sceneVars, exporterVars, result, param, bExportSuccessful,
                 clearPos, gameThreadTasks, workerPc, crashed, calls, asked,
                 trace, fired, delivered, import>>

\* The game thread task queued by SendProgress_AnyThread: the copy of the
\* delegate is executed with the copy of the payload.
SendProgressTask ==
  /\ GameThreadFree
  /\ gameThreadTasks # <<>> /\ Head(gameThreadTasks) = "SendProgress"
  /\ gameThreadTasks' = Tail(gameThreadTasks)
  /\ progress' = ExecuteIfBound([progress EXCEPT !.queued = Tail(@)],
                                Head(progress.queued).bound,
                                Head(progress.queued).update, "game thread")
  /\ lastOp' = "SendProgress_AnyThread:task"
  /\ UNCHANGED <<sceneVars, exporterVars, result, param, gtPc,
                 bExportSuccessful, clearPos, workerPc, crashed, calls, asked,
                 trace, fired, delivered, import>>

\* The game thread task queued by PrepareSceneForExport_Update:
\* gatherMeshDataTicker.Reset().
ResetTicker ==
  /\ GameThreadFree
  /\ gameThreadTasks # <<>> /\ Head(gameThreadTasks) = "ResetTicker"
  /\ gameThreadTasks' = Tail(gameThreadTasks)
  /\ gather' = [gather EXCEPT !.gatherMeshDataTicker = FALSE]
  /\ lastOp' = "ResetTicker"
  /\ UNCHANGED <<nodes, meshes, materials, uniqueMaterials, aiScene,
                 numObjectsSkipped, exportLog, allNodesHelper, exporterVars,
                 result, param, gtPc, bExportSuccessful, clearPos, workerPc,
                 crashed, calls, asked, trace, fired, delivered, libraryVars>>

\* Export_Async_AnyThread: PrepareSceneForExport_Async_Finish,
\* ProcessGatheredData_Recursive.
WorkerBuild ==
  /\ workerPc = "queued" /\ crashed = ""
  /\ LET b == ProcessGatheredData_Recursive(param)
     IN /\ nodes' = b.nodes
        /\ meshes' = b.meshes
        /\ materials' = b.materials
        /\ uniqueMaterials' = b.uniqueMaterials
        /\ asyncResult' = Logged(asyncResult, "asyncResult", b.lines)
  /\ workerPc' = "built"
  /\ trace' = Append(trace, "build")
  /\ lastOp' = "Export_Async_AnyThread:build"
  /\ UNCHANGED <<aiScene, numObjectsSkipped, exportLog, allNodesHelper, gather,
                 bIsExporting, aiExporterReturn, aiExporterError, delegates,
                 result, param, gtPc, bExportSuccessful, clearPos,
                 gameThreadTasks, crashed, calls, asked, fired, delivered,
                 libraryVars>>

\* Export_Async_AnyThread: PrepareSceneForExport_Async_Finish,
\* SetDataAndPtrsToParentClass_EntireScene, and the lines logged after it.
WorkerBind ==
  /\ workerPc = "built" /\ crashed = ""
  /\ aiScene' = BoundAiScene
  /\ nodes' = [n \in DOMAIN nodes |-> BindNode(nodes, n, param)]
  /\ meshes' = [m \in DOMAIN meshes |-> BindMesh(meshes[m])]
  /\ asyncResult' = Logged(asyncResult, "asyncResult",
                           <<"scene does contain meshes",
                             "scene does contain materials">>
                           \o [i \in 1..Len(materials) |-> "material name"])
  /\ workerPc' = "bound"
  /\ trace' = Append(trace, "bind")
  /\ lastOp' = "Export_Async_AnyThread:bind"
  /\ UNCHANGED <<materials, uniqueMaterials, numObjectsSkipped, exportLog,
                 allNodesHelper, gather, bIsExporting, aiExporterReturn,
                 aiExporterError, delegates, result, param, gtPc,
                 bExportSuccessful, clearPos, gameThreadTasks, crashed,
                 calls, asked, fired, delivered, libraryVars>>

\* Export_Async_AnyThread: Assimp::Exporter::Export, with no handler for an
\* exception, and the read of the error string.
WorkerCodec ==
  /\ workerPc = "bound" /\ crashed = ""
  /\ \E n \in 0..MaxCodecUpdates :
       /\ progress' = SendAllProgress(
                        progress, delegates.progress,
                        [k \in 1..n |->
                           ProgressUpdate("AssimpFileWrite", k, n, "worker")])
       /\ gameThreadTasks' = WithProgressTasks(gameThreadTasks, n)
  /\ \E outcome \in CodecOutcomes :
       IF outcome.thrown
       THEN /\ crashed' = "uncaught exception"
            /\ asyncResult' = Logged(asyncResult, "asyncResult",
                                     <<"begin export scene">>)
            /\ lastOp' = "Export_Async_AnyThread:codec threw"
            /\ UNCHANGED <<aiExporterReturn, aiExporterError, workerPc,
                           clearPos>>
       ELSE /\ aiExporterReturn' = outcome.ret
            /\ aiExporterError' = outcome.error
            /\ asyncResult' = Logged(asyncResult, "asyncResult",
                                     <<"begin export scene",
                                       "end export scene">>)
            /\ workerPc' = "clear"
            /\ clearPos' = 0
            /\ lastOp' = "Export_Async_AnyThread:codec returned"
            /\ UNCHANGED crashed
  /\ trace' = Append(trace, "codec")
  /\ UNCHANGED <<sceneVars, bIsExporting, delegates, result, param, gtPc,
                 bExportSuccessful, calls, asked, fired, delivered, import>>

\* Export_Async_AnyThread: ClearSceneExportData.
WorkerClear ==
  /\ workerPc = "clear" /\ crashed = ""
  /\ ClearSceneExportData
  /\ lastOp' = "Export_Async_AnyThread:clear"
  /\ UNCHANGED <<numObjectsSkipped, exportLog, allNodesHelper, exporterVars,
                 result, param, gtPc, bExportSuccessful, gameThreadTasks,
                 workerPc, crashed, calls, asked, fired, delivered,
                 libraryVars>>

\* Export_Async_AnyThread: the task for Export_Async_Finish is queued.
WorkerDone ==
  /\ workerPc = "clear" /\ crashed = ""
  /\ clearPos = ClearEnd
  /\ gameThreadTasks' = Append(gameThreadTasks, "Export_Async_Finish")
  /\ workerPc' = "none"
  /\ lastOp' = "Export_Async_AnyThread:returned"
  /\ UNCHANGED <<sceneVars, exporterVars, result, param, gtPc,
                 bExportSuccessful, clearPos, crashed, calls, asked, trace,
                 fired, delivered, libraryVars>>

\* Export_Async_Finish: PostExportWork up to the call of
\* ClearSceneExportData.
AsyncPost ==
  /\ GameThreadFree
  /\ gameThreadTasks # <<>> /\ Head(gameThreadTasks) = "Export_Async_Finish"
  /\ gameThreadTasks' = Tail(gameThreadTasks)
  /\ LET post == PostExportWork(asyncResult)
     IN /\ asyncResult' = post.result
        /\ bExportSuccessful' = post.bExportSuccessful
  /\ exportLog' = NULL
  /\ clearPos' = 0
  /\ gtPc' = "async_clear"
  /\ lastOp' = "PostExportWork"
  /\ UNCHANGED <<nodes, meshes, materials, uniqueMaterials, aiScene,
                 numObjectsSkipped, allNodesHelper, gather, bIsExporting,
                 aiExporterReturn, aiExporterError, delegates, result, param,
                 workerPc, crashed, calls, asked, trace, fired, delivered,
                 libraryVars>>

\* ClearSceneExportData called by PostExportWork, in Export_Async_Finish.
AsyncClear ==
  /\ gtPc = "async_clear" /\ crashed = ""
  /\ ClearSceneExportData
  /\ lastOp' = "PostExportWork:clear"
  /\ UNCHANGED <<numObjectsSkipped, exportLog, allNodesHelper, exporterVars,
                 result, param, gtPc, bExportSuccessful, gameThreadTasks,
                 workerPc, crashed, calls, asked, fired, delivered,
                 libraryVars>>

\* The end of PostExportWork and the rest of Export_Async_Finish.
AsyncFinish ==
  /\ gtPc = "async_clear" /\ crashed = ""
  /\ clearPos = ClearEnd
  /\ aiExporterError' = <<>>
  /\ aiExporterReturn' = "aiReturn_FAILURE"
  /\ bIsExporting' = FALSE
  /\ delivered' = IF delegates.finished
                  THEN [asyncResult EXCEPT !.bSuccess = bExportSuccessful]
                  ELSE delivered
  /\ fired' = IF delegates.finished
              THEN [fired EXCEPT !.finished = @ + 1,
                                 !.finishedThread = "game thread",
                                 !.finishedWhileExporting = bIsExporting']
              ELSE fired
  /\ delegates' = [progress |-> FALSE, gatherDone |-> FALSE,
                   finished |-> FALSE]
  /\ asyncResult' = [asyncResult EXCEPT !.bSuccess = bExportSuccessful,
                                        !.error = <<>>, !.exportLog = <<>>,
                                        !.numObjectsSkipped = 0]
  /\ gtPc' = "idle"
  /\ trace' = Append(trace, "post")
  /\ lastOp' = "Export_Async_Finish:returned"
  /\ progress' = [progress EXCEPT !.delivered = {}]
  /\ UNCHANGED <<sceneVars, result, param, bExportSuccessful, clearPos,
                 gameThreadTasks, workerPc, crashed, calls, asked, import>>

\* ------------------------------------------------------------ specification
Next ==
  \/ SceneMutation
  \/ \E p \in ExportParams, pre \in PreChecks : Export(p, pre)
  \/ SyncGather
  \/ SyncBuild
  \/ SyncBind
  \/ SyncCodec
  \/ SyncPost
  \/ SyncClear
  \/ SyncReturn
  \/ \E p \in AsyncParams, pre \in PreChecks : Export_Async_Cpp(p, pre)
  \/ Tick
  \/ TickTail
  \/ ResetTicker
  \/ WorkerBuild
  \/ WorkerBind
  \/ WorkerCodec
  \/ WorkerClear
  \/ WorkerDone
  \/ AsyncPost
  \/ AsyncClear
  \/ AsyncFinish
  \/ SendProgressTask

Spec == Init /\ [][Next]_vars

\* ------------------------------------------------------------ sections
\* A second specification runs one Export, from the return of PreExportWork
\* to the return of Export, on a tree with two export objects whose answers
\* range over a wider set of sections.

\* Largest number of sections in one answer of GetMeshData.
MaxSections == 3

\* Material handles (UMaterialInterface*) a section may carry, nullptr
\* included.
Handles == {"M1", "M2", NULL}

\* A section whose arrays all fit its vertices.
WellFormed(material, vertices, triangles) ==
  [meshToWorld |-> Identity, material |-> material, vertices |-> vertices,
   normals |-> [i \in DOMAIN vertices |-> 1],
   tangents |-> [i \in DOMAIN vertices |-> 1],
   textureCoordinates |-> [i \in DOMAIN vertices |-> i - 1],
   vertexColors |-> [i \in DOMAIN vertices |-> 7],
   triangles |-> triangles]

\* Valid sections: three shapes, each with every handle.
ValidSections ==
  UNION { { WellFormed(h, <<0, 1, 2>>, <<0, 1, 2>>),
            WellFormed(h, <<5, 6>>, <<>>),
            WellFormed(h, <<3, 4>>, <<0, 1, 1>>) } : h \in Handles }

\* An array of n entries.
ArrayOf(n, entry) == [i \in 1..n |-> entry]

\* Sections with every combination of array lengths 0 and 1 and of
\* triangle-index counts 0, 2 and 3.
AnySections ==
  { [meshToWorld |-> Identity, material |-> "M1",
     vertices |-> ArrayOf(len[1], 9), normals |-> ArrayOf(len[2], 1),
     tangents |-> ArrayOf(len[3], 1),
     textureCoordinates |-> ArrayOf(len[4], 0),
     vertexColors |-> ArrayOf(len[5], 7),
     triangles |-> ArrayOf(numIndices, 0)] :
      len \in [1..5 -> {0, 1}], numIndices \in {0, 2, 3} }

\* The answers of the two exportables in the second specification.
SectionAnswers ==
  { [accepted |-> TRUE, sections |-> secs] :
      secs \in UNION { [1..k -> ValidSections] : k \in 1..MaxSections } }
  \cup { [accepted |-> TRUE, sections |-> <<sec>>] : sec \in AnySections }

OtherAnswers ==
  { Refusal,
    [accepted |-> TRUE, sections |-> << WellFormed(NULL, <<8>>, <<>>) >>],
    [accepted |-> TRUE, sections |-> << WellFormed("M1", <<8, 9>>, <<1, 0, 1>>) >>] }

SectionResponses ==
  { [e \in Exportables |-> IF e = "e1" THEN a ELSE b] :
      a \in SectionAnswers, b \in OtherAnswers }

\* The state in which PreExportWork has accepted an Export, after the two
\* calls of AddExportObject that registered the exportables under their own
\* node names.
InitSections ==
  /\ nodes = AddExportObjectsTo(<< NewNode(<<>>, 0) >>, <<"e1", "e2">>,
                                FALSE, <<>>)
  /\ meshes = <<>>
  /\ materials = <<>>
  /\ uniqueMaterials = <<>>
  /\ aiScene = UnboundAiScene
  /\ numObjectsSkipped = 0
  /\ exportLog = "result"
  /\ allNodesHelper = <<>>
  /\ gather = [currentNodeIndex |-> 0, numGatherPerTick |-> -1,
               delegateProgress |-> FALSE, gatherMeshDataTicker |-> FALSE]
  /\ bIsExporting = TRUE
  /\ aiExporterReturn = "aiReturn_FAILURE"
  /\ aiExporterError = <<>>
  /\ asyncResult = EmptyResult
  /\ delegates = [progress |-> FALSE, gatherDone |-> FALSE, finished |-> FALSE]
  /\ result = [StaleResult EXCEPT !.error = <<>>, !.exportLog = <<>>]
  /\ param \in ExportParams
  /\ gtPc = "sync_gather"
  /\ bExportSuccessful = FALSE
  /\ clearPos = 0
  /\ gameThreadTasks = <<>>
  /\ workerPc = "none"
  /\ crashed = ""
  /\ calls = 3
  /\ lastOp = "Export"
  /\ asked = <<>>
  /\ trace = <<>>
  /\ fired = [NothingFired EXCEPT !.session = "Export"]
  /\ delivered = EmptyResult
  /\ progress = NoProgress
  /\ import = NoImport

\* FAssimpScene::PrepareSceneForExport up to the end of gathering, over the
\* wider set of sections.
SectionGather == SyncGatherFrom(SectionResponses)

SectionNext ==
  \/ SectionGather
  \/ SyncBuild
  \/ SyncBind
  \/ SyncCodec
  \/ SyncPost
  \/ SyncClear
  \/ SyncReturn

SectionSpec == InitSections /\ [][SectionNext]_vars

\* ------------------------------------------------------------ properties
\* What lastOp reads after a call of Export or Export_Async_Cpp.
BusyOutcomes == {"Export:busy", "Export_Async_Cpp:busy"}

ExportOutcomes ==
  BusyOutcomes \cup {"Export", "Export:precheck", "Export_Async_Cpp",
                     "Export_Async_Cpp:precheck"}

\* The step is a call of Export or Export_Async_Cpp.
ExportCall == calls' = calls + 1 /\ lastOp' \in ExportOutcomes

\* The session in flight was started by Export_Async_Cpp.
AsyncInFlight == bIsExporting /\ fired.session = "Export_Async_Cpp"

\* The members of a sequence.
Range(seq) == { seq[i] : i \in DOMAIN seq }

\* C1: an export request that is turned down because a session is in flight
\* changes no state of the exporter and none of its scene.
C1_BusyExportMutatesNothing ==
  [][(ExportCall /\ lastOp' \in BusyOutcomes)
       => UNCHANGED <<sceneVars, exporterVars>>]_vars

\* What the scene-mutation calls write: per node its name, its place in the
\* tree, its world transform and its export objects.
SceneTree ==
  [n \in DOMAIN nodes |->
     [name |-> nodes[n].name, parent |-> nodes[n].parent,
      children |-> nodes[n].children,
      worldTransform |-> nodes[n].worldTransform,
      exportObjects |-> nodes[n].exportObjects]]

\* C2: a session is accepted only when none is in flight, and while one is
\* in flight no step creates a node, changes a world transform or attaches
\* an export object.
C2_OneSessionAndNoSceneMutation ==
  [][/\ bIsExporting => SceneTree' = SceneTree
     /\ (ExportCall /\ lastOp' \in {"Export", "Export_Async_Cpp"})
          => ~bIsExporting]_vars

\* C2 witness: a scene-mutation call has been turned down while an
\* asynchronous session was past its gathering.
C2_Witness ==
  /\ AsyncInFlight /\ "gather" \in Range(trace)
  /\ lastOp = "AddExportObjects:exporting"

\* An asynchronous session is gathering.
Gathering == AsyncInFlight /\ trace = <<>> /\ crashed = ""

\* C3: a call of Export or Export_Async_Cpp made while a session is gathering
\* returns at once with bSuccess false and leaves the mesh pool and the
\* material pool as they were.
C3_BusyWhileGathering ==
  [][(Gathering /\ ExportCall)
       => /\ lastOp' \in BusyOutcomes
          /\ gtPc' = "idle"
          /\ lastOp' = "Export:busy" => ~result'.bSuccess
          /\ lastOp' = "Export_Async_Cpp:busy"
               => ~delivered'.bSuccess /\ ~asyncResult'.bSuccess
          /\ UNCHANGED <<meshes, materials, uniqueMaterials>>]_vars

\* C3 witness: Export was called on a record that said success while a
\* session was between two gathering ticks, and has returned.
C3_Witness ==
  /\ Gathering /\ asked # <<>>
  /\ lastOp = "Export:busy" /\ ~result.bSuccess

\* The owned arrays the bound fields point into.
OwnedArrays ==
  [children |-> [n \in DOMAIN nodes |-> nodes[n].children],
   meshRefIndices |-> [n \in DOMAIN nodes |-> nodes[n].meshRefIndices],
   meshes |-> meshes, materials |-> materials]

\* The scene is bound and the codec call has not returned.
InBindWindow ==
  bIsExporting /\ "bind" \in Range(trace) /\ "codec" \notin Range(trace)

\* C4: from the bind to the return of the codec call, in Export and in
\* Export_Async_AnyThread, no step changes an owned array.
C4_OwnedArraysStableWhileBound ==
  [][InBindWindow => OwnedArrays' = OwnedArrays]_vars

\* C4 witness: the codec call of an asynchronous session has returned on a
\* scene with meshes, after the game thread ran a task inside the window.
C4_Witness ==
  /\ workerPc = "clear" /\ clearPos = 0 /\ Len(meshes) > 0
  /\ aiScene.mMeshes # NULL /\ ~gather.gatherMeshDataTicker

\* C5: a bound field never outlives what it refers to: while the scene's
\* mesh fields are bound the mesh pool has the bound length, and while a
\* node's mesh-index field is bound every index it holds is in the pool.
C5_NoBoundFieldOverEmptiedPool ==
  /\ aiScene.mMeshes # NULL => aiScene.mNumMeshes = Len(meshes)
  /\ \A n \in DOMAIN nodes :
       nodes[n].mMeshes # NULL
         => \A i \in DOMAIN nodes[n].meshRefIndices :
              nodes[n].meshRefIndices[i] < Len(meshes)

\* C6: an exception of the codec call does not end the process, in Export
\* and in Export_Async_AnyThread.
C6_CodecExceptionIsCaught ==
  lastOp \in {"Export:codec threw", "Export_Async_AnyThread:codec threw"}
    => crashed = ""

\* The ticker ticked again before its reset task ran.
ExtraTick == crashed \in {"checkNoEntry()", "check(numGatherPerTick > 0)"}

\* C7: an accepted asynchronous session is never left without a next step
\* by the end of its worker (left aside the runs in which the ticker ticks
\* again before it is reset), so that fair scheduling carries it to the
\* finished callback.
C7_AsyncSessionStaysAlive ==
  (AsyncInFlight /\ ~ExtraTick) => crashed = ""

\* The registrations of export objects, as node and index.
Registrations ==
  { r \in (DOMAIN nodes) \X (0..(MaxObjects - 1)) :
      r[2] < Len(nodes[r[1]].exportObjects) }

\* The registrations that have been asked for their mesh data.
Requested == { <<asked[k].node, asked[k].index>> : k \in DOMAIN asked }

\* C8: in an asynchronous session the build is not done before every export
\* object of every node has been asked; the gather-done callback fires once,
\* after the last request and before the build; the finished callback fires
\* once, on the game thread, with the exporter no longer exporting.
C8_AsyncOrder ==
  fired.session = "Export_Async_Cpp"
    => /\ fired.gatherDone <= 1 /\ fired.finished <= 1
       /\ fired.gatherDone = 1 => "gather" \in Range(trace)
       /\ (workerPc # "none" \/ "build" \in Range(trace))
            => /\ bIsExporting => Requested = Registrations
               /\ fired.gatherDone = 1
               /\ fired.gatherDoneAfter = asked
       /\ fired.finished = 1
            => /\ "post" \in Range(trace)
               /\ fired.finishedThread = "game thread"
               /\ ~fired.finishedWhileExporting
       /\ "post" \in Range(trace) => fired.finished = 1

\* C8 witness: an asynchronous session that asked two export objects in two
\* ticks has delivered its finished callback.
C8_Witness ==
  /\ fired.session = "Export_Async_Cpp" /\ fired.finished = 1
  /\ Len(asked) = 2 /\ param.bCombineSameMaterial

\* The phases of Export in order.
SyncPhases == <<"gather", "build", "bind", "codec", "unbind", "post">>

\* One sequence begins the other.
IsPrefix(short, long) ==
  Len(short) <= Len(long) /\ \A i \in DOMAIN short : short[i] = long[i]

Skipped(response) ==
  \/ ~response.accepted
  \/ response.sections = <<>>
  \/ \E i \in DOMAIN response.sections :
       ~ValidateMeshSection(response.sections[i]).bMeshValid

\* The answers given for node n that are not skipped, in the order asked.
AcceptedFor(n) ==
  SelectSeq(asked, LAMBDA r : r.node = n /\ ~Skipped(r.response))

\* The session in flight has begun to gather and has not built.
GatherPhase ==
  /\ bIsExporting /\ "build" \notin Range(trace)
  /\ fired.session = "Export" => trace = <<"gather">>

\* C10: while a session gathers, the gathered buffer of each node holds, in
\* the order asked, all sections of every answer that is neither a refusal,
\* nor empty, nor has a section that fails validation, and nothing else; the
\* skipped counter is the number of the other answers.
C10_AllOrNothingPerSource ==
  GatherPhase
    => /\ \A n \in DOMAIN nodes :
            nodes[n].gatheredExportables =
              [k \in DOMAIN AcceptedFor(n) |-> AcceptedFor(n)[k].response.sections]
       /\ numObjectsSkipped =
            Cardinality({ k \in DOMAIN asked : Skipped(asked[k].response) })

\* C10 witness: of two export objects asked, one was skipped for an invalid
\* section that follows a valid one, the other was buffered.
C10_Witness ==
  /\ GatherPhase /\ Len(asked) = 2
  /\ numObjectsSkipped = 1
  /\ \E k \in DOMAIN asked :
       /\ asked[k].response.accepted
       /\ Len(asked[k].response.sections) = 2
       /\ ValidateMeshSection(asked[k].response.sections[1]).bMeshValid
       /\ Skipped(asked[k].response)
  /\ \E n \in DOMAIN nodes : nodes[n].gatheredExportables # <<>>

\* ------------------------------------------------------------ properties, 2
\* The sequences of a sequence, one after the other.
RECURSIVE Concat(_)
Concat(seqs) == IF seqs = <<>> THEN <<>> ELSE Head(seqs) \o Concat(Tail(seqs))

\* The sections of the answers given for node n that are not skipped, in
\* the order asked.
AcceptedSections(n) ==
  Concat([k \in DOMAIN AcceptedFor(n) |-> AcceptedFor(n)[k].response.sections])

\* The meshes node n refers to, in the order of its mesh indices.
MeshesOf(n) ==
  [i \in DOMAIN nodes[n].meshRefIndices |->
     meshes[nodes[n].meshRefIndices[i] + 1]]

\* The material handle a mesh stands for.
MeshHandle(mesh) == uniqueMaterials[mesh.mMaterialIndex + 1]

\* The number of answers of the session that made GatherMeshData skip.
NumSkippedAnswers ==
  Cardinality({ k \in DOMAIN asked : Skipped(asked[k].response) })

\* The meshes of the session are built and not yet cleared.
Built ==
  bIsExporting /\ "build" \in Range(trace) /\ "codec" \notin Range(trace)

\* The vertices of the accepted sections of node n that carry handle h, in
\* node space, in the order asked.
SectionVertices(n, h) ==
  Concat([k \in DOMAIN AcceptedSections(n) |->
            IF AcceptedSections(n)[k].material = h
            THEN TransformSection(AcceptedSections(n)[k],
                                  nodes[n].worldTransform).vertices
            ELSE <<>>])

\* The vertices of the meshes of node n that stand for handle h, in the
\* order of the mesh indices.
MeshVertices(n, h) ==
  Concat([i \in DOMAIN MeshesOf(n) |->
            IF MeshHandle(MeshesOf(n)[i]) = h THEN MeshesOf(n)[i].vertices
            ELSE <<>>])

\* The session that ended last and the record it reported.
SyncReported == lastOp = "Export:returned" /\ fired.session = "Export"

AsyncReported == lastOp = "Export_Async_Finish:returned" /\ fired.finished = 1

\* C11: the numObjectsSkipped a session reports, from Export and to the
\* finished callback alike, is the number of export objects that in this
\* session refused, gave no section or gave an invalid section; and the
\* meshes built hold, per node and material handle, the vertices of exactly
\* the sections of the other export objects.
C11_SkipAccounting ==
  /\ SyncReported => result.numObjectsSkipped = NumSkippedAnswers
  /\ AsyncReported => delivered.numObjectsSkipped = NumSkippedAnswers
  /\ Built => \A n \in DOMAIN nodes : \A h \in Handles :
                MeshVertices(n, h) = SectionVertices(n, h)

\* C11 witness: an asynchronous session that asked two export objects, was
\* refused by one and built from the other, has reported one object skipped
\* to the finished callback.
C11_Witness ==
  /\ AsyncReported /\ Len(asked) = 2
  /\ NumSkippedAnswers = 1 /\ delivered.numObjectsSkipped = 1
  /\ \E k \in DOMAIN asked : asked[k].response = Refusal

\* A session has been run on this exporter before: allNodesHelper, which no
\* step empties, holds more entries than the tree has nodes.
RepeatedSession == Len(allNodesHelper) > Len(nodes)

\* C12: in a session that passed the pre-checks no export-object
\* registration is asked twice for its mesh data, and once the gathering has
\* ended, in Export and in the ticks of Export_Async_Cpp, every registration
\* of every node has been asked; first session or later.
C12_EveryRegistrationAskedOnce ==
  /\ Len(asked) = Cardinality(Requested)
  /\ (bIsExporting /\ "gather" \in Range(trace)) => Requested = Registrations

\* C12 witness: a later session on the same exporter, run by
\* Export_Async_Cpp, has ended its gathering with an export object asked.
C12_Witness ==
  /\ AsyncInFlight /\ RepeatedSession
  /\ "gather" \in Range(trace) /\ Len(asked) > 0

\* The step is a tick of the gather ticker that got past its checks.
TickStep == lastOp' \in {"Tick", "Tick:gather done"} /\ asked' # asked

\* Node n has no export object left to ask, in the arena ns.
Exhausted(ns, n) == ns[n].indexGatherNext = Len(ns[n].exportObjects)

\* The requests up to the k-th follow the order of the incremental gather:
\* the k-th asks the first export object of its node that was not asked
\* before, and its node differs from the node of the request before it only
\* if that request asked the last export object of its node.
InGatherOrder(requests, k) ==
  /\ requests[k].index =
       Cardinality({ j \in 1..(k - 1) : requests[j].node = requests[k].node })
  /\ (k > 1 /\ requests[k - 1].node # requests[k].node)
       => requests[k - 1].index + 1 =
            Len(nodes[requests[k - 1].node].exportObjects)

\* C13: Export_Async_Cpp sets the budget of a tick to max(1, numGatherPerTick);
\* a tick asks at most that many export objects over all the nodes it
\* visits, the skipped ones included, goes on from the first export object
\* not yet asked, and leaves a node behind only when all its export objects
\* have been asked.
C13_TickBudgetAndResume ==
  [][/\ (ExportCall /\ lastOp' = "Export_Async_Cpp")
          => \E p \in AsyncParams :
               /\ param' = p.param
               /\ gather'.numGatherPerTick =
                    (IF p.numGatherPerTick > 1 THEN p.numGatherPerTick ELSE 1)
     /\ TickStep
          => /\ IsPrefix(asked, asked')
             /\ Len(asked') - Len(asked) <= gather.numGatherPerTick
             /\ asked'[Len(asked) + 1].index =
                  nodes[asked'[Len(asked) + 1].node].indexGatherNext
             /\ \A k \in (Len(asked) + 1)..Len(asked') :
                  InGatherOrder(asked', k)
             /\ \A i \in 1..gather'.currentNodeIndex :
                  Exhausted(nodes', allNodesHelper[i])]_vars

\* C13 witness: a tick with a budget of one has asked one of two export
\* objects, which was skipped, and the gathering goes on.
C13_Witness ==
  /\ Gathering /\ lastOp = "Tick" /\ gather.numGatherPerTick = 1
  /\ Len(asked) = 1 /\ Cardinality(Registrations) = 2
  /\ Skipped(asked[1].response)

\* The step is PostExportWork up to its call of ClearSceneExportData.
PostStep ==
  /\ gtPc \notin {"sync_clear", "async_clear"}
  /\ gtPc' \in {"sync_clear", "async_clear"}

\* The record PostExportWork was handed in this step, before and after.
PostRecord == IF gtPc' = "sync_clear" THEN result ELSE asyncResult

PostRecordAfter == IF gtPc' = "sync_clear" THEN result' ELSE asyncResult'

\* The last line of a text.
LastLine(text) == text[Len(text)]

\* C14: PostExportWork evaluates to success exactly when the codec status is
\* aiReturn_SUCCESS, the codec's error string is empty and the error text of
\* the result record is empty on entry; on aiReturn_OUTOFMEMORY and on
\* aiReturn_FAILURE it evaluates to failure and appends its message to the
\* error text; Export and the finished callback report that evaluation.
C14_PostEvaluation ==
  [][/\ PostStep
          => /\ bExportSuccessful' =
                  (/\ aiExporterReturn = "aiReturn_SUCCESS"
                   /\ aiExporterError = <<>>
                   /\ PostRecord.error = <<>>)
             /\ IsPrefix(PostRecord.error, PostRecordAfter.error)
             /\ aiExporterReturn = "aiReturn_OUTOFMEMORY"
                  => /\ ~bExportSuccessful'
                     /\ PostRecordAfter.error # <<>>
                     /\ LastLine(PostRecordAfter.error)
                          = "Export failed: out of memory!"
             /\ aiExporterReturn = "aiReturn_FAILURE"
                  => /\ ~bExportSuccessful'
                     /\ PostRecordAfter.error # <<>>
                     /\ LastLine(PostRecordAfter.error) = "Export failed!"
     /\ (gtPc = "sync_clear" /\ gtPc' = "idle")
          => result'.bSuccess = bExportSuccessful
     /\ (gtPc = "async_clear" /\ gtPc' = "idle")
          => delivered'.bSuccess = bExportSuccessful]_vars

\* C14 witness: an Export whose codec call returned aiReturn_SUCCESS with no
\* error has returned success on a record that came in with an error text.
C14_Witness ==
  /\ SyncReported /\ result.bSuccess /\ result.error = <<>>

\* The pre-checks of the file layer turn the request down.
Blocked(pre) ==
  (~pre.bOverrideExisting /\ pre.fileExists) \/ ~pre.canCreateDirectory

\* The step starts no session: nobody is asked, no phase is run, the pools
\* are empty, the exporter is not exporting, and neither the ticker nor the
\* worker have been started.
NoSessionStarted ==
  /\ asked' = asked /\ trace' = trace
  /\ meshes' = <<>> /\ materials' = <<>> /\ uniqueMaterials' = <<>>
  /\ ~bIsExporting' /\ gtPc' = "idle"
  /\ workerPc' = workerPc /\ ~gather'.gatherMeshDataTicker
  /\ gameThreadTasks' = gameThreadTasks

\* C15: an export request made while no session is in flight, for a file
\* that exists with bOverrideExisting unset or into a directory that cannot
\* be created, returns bSuccess false with an error text and starts no
\* session; the export request after it is not turned down as busy.
C15_PreCheckFailure ==
  [][/\ \A pre \in PreChecks :
          (Blocked(pre) /\ ~bIsExporting)
            => /\ (\E p \in ExportParams : Export(p, pre))
                    => /\ ~result'.bSuccess /\ result'.error # <<>>
                       /\ NoSessionStarted
               /\ (\E p \in AsyncParams : Export_Async_Cpp(p, pre))
                    => /\ ~delivered'.bSuccess /\ delivered'.error # <<>>
                       /\ NoSessionStarted
     /\ (ExportCall /\ lastOp \in {"Export:precheck",
                                   "Export_Async_Cpp:precheck"})
          => lastOp' \notin BusyOutcomes]_vars

\* C15 witness: Export_Async_Cpp, called on a tree with an export object for
\* a file that exists, has delivered its failure and asked nobody.
C15_Witness ==
  /\ lastOp = "Export_Async_Cpp:precheck"
  /\ ~delivered.bSuccess /\ delivered.error = <<"File does already exist!">>
  /\ Cardinality(Registrations) > 0 /\ asked = <<>> /\ ~bIsExporting

\* The distinct members of a sequence in the order of their first
\* occurrence.
RECURSIVE FirstSeen(_)
FirstSeen(seq) ==
  IF seq = <<>> THEN <<>>
  ELSE LET front == FirstSeen(SubSeq(seq, 1, Len(seq) - 1))
           last == seq[Len(seq)]
       IN IF last \in Range(front) THEN front ELSE Append(front, last)

\* The material handles of a sequence of sections.
HandlesOf(sections) == [i \in DOMAIN sections |-> sections[i].material]

\* The sections of a sequence that carry handle h, in their order.
Group(sections, h) == SelectSeq(sections, LAMBDA sec : sec.material = h)

\* The accepted sections of node n, group after group: the groups in the
\* order in which their handles first occur, each in the order asked.
GroupedSections(n) ==
  LET keys == FirstSeen(HandlesOf(AcceptedSections(n)))
  IN Concat([g \in DOMAIN keys |-> Group(AcceptedSections(n), keys[g])])

\* The handles the meshes of node n are to stand for, in the order of the
\* meshes.
ExpectedHandles(n) ==
  IF param.bCombineSameMaterial
  THEN FirstSeen(HandlesOf(AcceptedSections(n)))
  ELSE HandlesOf(GroupedSections(n))

\* The handle the mesh at place m of the pool is to stand for: that of the
\* node and place that refer to it.
OwnerHandle(m) ==
  LET owner == CHOOSE o \in (DOMAIN nodes) \X (DOMAIN meshes) :
                 /\ o[2] <= Len(nodes[o[1]].meshRefIndices)
                 /\ nodes[o[1]].meshRefIndices[o[2]] = m - 1
  IN ExpectedHandles(owner[1])[owner[2]]

\* The handles the meshes of the pool are to stand for, in pool order.
PoolHandles == [m \in DOMAIN meshes |-> OwnerHandle(m)]

\* The place of a member in a sequence.
PlaceOf(seq, x) == CHOOSE i \in DOMAIN seq : seq[i] = x

\* C16: the material pool and uniqueMaterials always have the same length
\* and every mesh of the pool has a material index inside the material pool;
\* while the meshes of a session stand, two meshes of the pool, of whatever
\* nodes, have the same material index exactly when their sections carried
\* the same handle, nullptr being a handle like the others, and the handles
\* are numbered in the order in which the build first met them.
C16_MaterialIndices ==
  /\ Len(materials) = Len(uniqueMaterials)
  /\ \A m \in DOMAIN meshes :
       meshes[m].mMaterialIndex \in 0..(Len(materials) - 1)
  /\ Built
       => /\ \A a, b \in DOMAIN meshes :
               (meshes[a].mMaterialIndex = meshes[b].mMaterialIndex)
                 <=> (OwnerHandle(a) = OwnerHandle(b))
          /\ uniqueMaterials = FirstSeen(PoolHandles)
          /\ \A m \in DOMAIN meshes :
               meshes[m].mMaterialIndex + 1
                 = PlaceOf(FirstSeen(PoolHandles), OwnerHandle(m))
          /\ \A i \in DOMAIN materials :
               materials[i].name = (IF uniqueMaterials[i] = NULL THEN "Unknown"
                                    ELSE uniqueMaterials[i])

\* C16 witness: the pool holds meshes of two nodes, two of them of different
\* nodes with the null handle and one material index, and after them a mesh
\* with another handle and a higher index.
C16_Witness ==
  /\ Built /\ Len(meshes) >= 3
  /\ Len(nodes[2].meshRefIndices) > 0 /\ Len(nodes[3].meshRefIndices) > 0
  /\ OwnerHandle(1) = NULL /\ meshes[1].mMaterialIndex = 0
  /\ \E a, b \in DOMAIN meshes :
       /\ a < b /\ OwnerHandle(a) = NULL /\ OwnerHandle(b) # NULL
       /\ meshes[a].mMaterialIndex = 0 /\ meshes[b].mMaterialIndex = 1
       /\ a - 1 \in Range(nodes[2].meshRefIndices)

\* The triangle indices of the accepted sections of node n that carry handle
\* h, in the order asked.
SectionTriangles(n, h) ==
  Concat([k \in DOMAIN AcceptedSections(n) |->
            IF AcceptedSections(n)[k].material = h
            THEN AcceptedSections(n)[k].triangles ELSE <<>>])

\* The places, among the meshes of node n, of those that stand for handle h.
MeshesFor(n, h) ==
  { i \in DOMAIN MeshesOf(n) : MeshHandle(MeshesOf(n)[i]) = h }

\* C17: with bCombineSameMaterial set a node gets one mesh for each handle
\* that occurs among its accepted sections, of whatever export objects, with
\* as many vertices and triangles as those sections have together; with it
\* unset the node gets one mesh for each accepted section.
C17_CombineSameMaterial ==
  Built
    => \A n \in DOMAIN nodes :
         IF param.bCombineSameMaterial
         THEN /\ Len(MeshesOf(n)) =
                   Cardinality(Range(HandlesOf(AcceptedSections(n))))
              /\ \A h \in Range(HandlesOf(AcceptedSections(n))) :
                   /\ Cardinality(MeshesFor(n, h)) = 1
                   /\ \A i \in MeshesFor(n, h) :
                        /\ Len(MeshesOf(n)[i].vertices)
                             = Len(SectionVertices(n, h))
                        /\ 3 * Len(MeshesOf(n)[i].faces)
                             = Len(SectionTriangles(n, h))
         ELSE /\ Len(MeshesOf(n)) = Len(AcceptedSections(n))
              /\ \A h \in Handles :
                   /\ Cardinality(MeshesFor(n, h))
                        = Len(Group(AcceptedSections(n), h))
                   /\ MeshVertices(n, h) = SectionVertices(n, h)

\* C17 witness: with bCombineSameMaterial set, a node whose export object
\* gave three sections, two of one handle with a triangle each, has two
\* meshes, one of them with two triangles.
C17_Witness ==
  /\ Built /\ param.bCombineSameMaterial
  /\ Len(AcceptedSections(2)) = 3 /\ Len(MeshesOf(2)) = 2
  /\ \E i \in DOMAIN MeshesOf(2) :
       Len(MeshesOf(2)[i].faces) = 2 /\ Len(MeshesOf(2)[i].vertices) = 5

\* The handles the meshes of node n stand for, in the order of the meshes.
MeshHandles(n) == [i \in DOMAIN MeshesOf(n) |-> MeshHandle(MeshesOf(n)[i])]

\* C18: the meshes of a node follow the groups of its accepted sections by
\* material handle, the groups in the order in which their handles first
\* occur among the sections as gathered, whatever the handles' values, and
\* the sections of a group in the order gathered.
C18_GroupOrder ==
  Built
    => \A n \in DOMAIN nodes :
         /\ MeshHandles(n) = ExpectedHandles(n)
         /\ \A i \in DOMAIN MeshesOf(n) :
              MeshesOf(n)[i].vertices =
                IF param.bCombineSameMaterial
                THEN SectionVertices(n, ExpectedHandles(n)[i])
                ELSE TransformSection(GroupedSections(n)[i],
                                      nodes[n].worldTransform).vertices

\* C18 witness: sections gathered with the handles M2, M1, M2, of three
\* shapes, have given the meshes M2, M2, M1, the two of M2 in the order
\* gathered.
C18_Witness ==
  /\ Built /\ ~param.bCombineSameMaterial
  /\ HandlesOf(AcceptedSections(2)) = <<"M2", "M1", "M2">>
  /\ MeshHandles(2) = <<"M2", "M2", "M1">>
  /\ MeshesOf(2)[1].vertices = <<0, 1, 2>>
  /\ MeshesOf(2)[2].vertices = <<3, 4>>
  /\ MeshesOf(2)[3].vertices = <<5, 6>>

\* The vertex indices of the faces of a mesh, face after face.
FaceIndices(mesh) == Concat([f \in DOMAIN mesh.faces |-> mesh.faces[f].mIndices])

\* The number of vertices, and of triangle indices, of the sections before
\* the j-th of a group.
VerticesBefore(group, j) ==
  Len(Concat([x \in 1..(j - 1) |-> group[x].vertices]))

TrianglesBefore(group, j) ==
  Len(Concat([x \in 1..(j - 1) |-> group[x].triangles]))

\* The mesh built from a group of sections appended one after the other
\* holds their per-vertex arrays one after the other; the triangle indices
\* of the first section are as they were, those of each later section are
\* raised by the number of vertices before it, and each index names the
\* vertex it named in its section.
AppendedInto(mesh, group) ==
  /\ mesh.vertices = Concat([j \in DOMAIN group |-> group[j].vertices])
  /\ mesh.normals = Concat([j \in DOMAIN group |-> group[j].normals])
  /\ mesh.tangents = Concat([j \in DOMAIN group |-> group[j].tangents])
  /\ [i \in DOMAIN mesh.textureCoordinates |-> mesh.textureCoordinates[i].x]
       = Concat([j \in DOMAIN group |-> group[j].textureCoordinates])
  /\ [i \in DOMAIN mesh.vertexColors |-> mesh.vertexColors[i].numerator]
       = Concat([j \in DOMAIN group |-> group[j].vertexColors])
  /\ Len(FaceIndices(mesh))
       = Len(Concat([j \in DOMAIN group |-> group[j].triangles]))
  /\ \A j \in DOMAIN group : \A i \in DOMAIN group[j].triangles :
       LET index == FaceIndices(mesh)[TrianglesBefore(group, j) + i]
       IN /\ index = group[j].triangles[i] + VerticesBefore(group, j)
          /\ j = 1 => index = group[j].triangles[i]
          /\ group[j].triangles[i] < Len(group[j].vertices)
               => mesh.vertices[index + 1]
                    = group[j].vertices[group[j].triangles[i] + 1]

\* The sections of node n with handle h, as the build sees them after its
\* transform to node space.
TransformedGroup(n, h) ==
  [j \in DOMAIN Group(AcceptedSections(n), h) |->
     TransformSection(Group(AcceptedSections(n), h)[j],
                      nodes[n].worldTransform)]

\* C19: FExportableMeshSection::Append, as the build applies it to the
\* sections of one handle with bCombineSameMaterial set, leaves a section
\* with the per-vertex arrays of the first followed by those of the
\* appended ones, the triangle indices of the first unchanged followed by
\* those of each appended section raised by the vertex count at the time of
\* its append, every triangle naming the vertices it named before.
C19_AppendOffsets ==
  (Built /\ param.bCombineSameMaterial)
    => \A n \in DOMAIN nodes :
         \A i \in DOMAIN MeshesOf(n) :
           AppendedInto(MeshesOf(n)[i],
                        TransformedGroup(n, MeshHandle(MeshesOf(n)[i])))

\* C19 witness: a section of two vertices and one triangle was appended to
\* one of three vertices and one triangle; the mesh has five vertices and
\* the triangles 0 1 2 and 3 4 4.
C19_Witness ==
  /\ Built /\ param.bCombineSameMaterial
  /\ Len(AcceptedSections(2)) = 2 /\ Len(MeshesOf(2)) = 1
  /\ MeshesOf(2)[1].vertices = <<0, 1, 2, 3, 4>>
  /\ FaceIndices(MeshesOf(2)[1]) = <<0, 1, 2, 3, 4, 4>>

\* The five conditions of a valid section.
FiveConditions(section) ==
  /\ Len(section.normals) = Len(section.vertices)
  /\ Len(section.tangents) = Len(section.vertices)
  /\ Len(section.vertexColors) = Len(section.vertices)
  /\ Len(section.textureCoordinates) = Len(section.vertices)
  /\ Len(section.triangles) % 3 = 0

\* C20: ValidateMeshSection returns false for a section whose normals,
\* tangents, vertex colours or texture coordinates are not as many as its
\* vertices or whose triangle indices are not a multiple of three, and true
\* for every other section; an export object that gave one section is
\* buffered by the gathering in the one case and skipped in the other.
C20_SectionValidation ==
  \A k \in DOMAIN asked :
    /\ \A i \in DOMAIN asked[k].response.sections :
         ValidateMeshSection(asked[k].response.sections[i]).bMeshValid
           = FiveConditions(asked[k].response.sections[i])
    /\ (GatherPhase /\ Len(asked[k].response.sections) = 1)
         => (asked[k].response.sections
               \in Range(nodes[asked[k].node].gatheredExportables))
              = FiveConditions(asked[k].response.sections[1])

\* C20 witness: a section in which only the vertex colours are not as many
\* as the vertices has been turned down and its export object skipped.
C20_Witness ==
  /\ GatherPhase /\ numObjectsSkipped > 0
  /\ \E k \in DOMAIN asked :
       /\ Len(asked[k].response.sections) = 1
       /\ nodes[asked[k].node].gatheredExportables = <<>>
       /\ LET section == asked[k].response.sections[1]
          IN /\ Len(section.vertices) = 1 /\ Len(section.vertexColors) = 0
             /\ Len(section.normals) = 1 /\ Len(section.tangents) = 1
             /\ Len(section.textureCoordinates) = 1
             /\ Len(section.triangles) = 3

\* ------------------------------------------------------------ properties, 3
\* Node paths, already split into segments, that the properties hand to
\* FindOrCreateNode: every list of at most two of the names "a", "b", "c".
Segments == { <<"a">>, <<"b">>, <<"c">> }

Paths == { <<>> } \cup { <<s>> : s \in Segments }
           \cup { <<s, t>> : s, t \in Segments }

\* The number of leading segments of path that name existing nodes, walking
\* down from node n.
RECURSIVE NumFound(_, _, _)
NumFound(ns, n, path) ==
  IF path = <<>> THEN 0
  ELSE LET child == { c \in Range(ns[n].children) : ns[c].name = Head(path) }
       IN IF child = {} THEN 0
          ELSE 1 + NumFound(ns, CHOOSE c \in child : TRUE, Tail(path))

\* The nodes from n up to the root, n first.
RECURSIVE Ancestry(_, _)
Ancestry(ns, n) ==
  IF ns[n].parent = 0 THEN <<n>> ELSE <<n>> \o Ancestry(ns, ns[n].parent)

\* No two children of one node carry the same name.
SiblingsDiffer(ns) ==
  \A n \in DOMAIN ns : \A i, j \in DOMAIN ns[n].children :
    i # j => ns[ns[n].children[i]].name # ns[ns[n].children[j]].name

\* C21: FindOrCreateNode called twice with the same path from the same node
\* returns the same node and creates nothing the second time; an empty path
\* returns the receiver; every missing segment creates exactly one node, a
\* new last child of the node reached so far; no two siblings have the same
\* name; and the root renders as "root".
C21_FindOrCreateIdempotent ==
  /\ SiblingsDiffer(nodes)
  /\ GetHierarchicalName(nodes, 1) = <<"r", "o", "o", "t">>
  /\ \A n \in DOMAIN nodes :
       /\ FindOrCreateNode(nodes, n, <<>>) = [nodes |-> nodes, node |-> n]
       /\ \A path \in Paths :
            LET first == FindOrCreateNode(nodes, n, path)
                second == FindOrCreateNode(first.nodes, n, path)
                numFound == NumFound(nodes, n, path)
                numNew == Len(path) - numFound
                line == Ancestry(first.nodes, first.node)
            IN /\ second = first
               /\ Len(first.nodes) = Len(nodes) + numNew
               /\ SiblingsDiffer(first.nodes)
               /\ \A k \in 1..Len(path) :
                    LET made == line[Len(path) - k + 1]
                        above == line[Len(path) - k + 2]
                    IN /\ first.nodes[made].name = path[k]
                       /\ first.nodes[made].parent = above
                       /\ k > numFound <=>  made > Len(nodes)
                       /\ k > numFound =>
                            /\ made = Len(nodes) + (k - numFound)
                            /\ first.nodes[above].children =
                                 (IF above <= Len(nodes)
                                  THEN nodes[above].children ELSE <<>>)
                                 \o <<made>>
               /\ line[Len(path) + 1] = n
               /\ \A m \in DOMAIN nodes :
                    first.nodes[m] =
                      IF numNew > 0 /\ m = line[numNew + 1]
                      THEN [nodes[m] EXCEPT !.children =
                              Append(@, Len(nodes) + 1)]
                      ELSE nodes[m]

\* C21 witness: the second of two calls that name the same node has returned;
\* it found the node of the first call and attached its export object there.
C21_Witness ==
  /\ lastOp = "AddExportObject"
  /\ \E n \in DOMAIN nodes :
       /\ n # 1 /\ Len(nodes[n].exportObjects) = 2
       /\ SiblingsDiffer(nodes)

\* The names on the way from the root down to node n, the root left out.
RECURSIVE SegmentsTo(_, _)
SegmentsTo(ns, n) ==
  IF ns[n].parent = 0 THEN <<>>
  ELSE Append(SegmentsTo(ns, ns[n].parent), ns[n].name)

\* FString::Join with ".": the segments with a dot between neighbours.
RECURSIVE DotJoin(_)
DotJoin(segments) ==
  IF segments = <<>> THEN <<>>
  ELSE IF Len(segments) = 1 THEN Head(segments)
  ELSE Head(segments) \o <<".">> \o DotJoin(Tail(segments))

\* C22: the hierarchical name of a non-root node is the dot-joined chain of
\* the names from the root down to it, the root left out, so that it is the
\* path AddNode resolves to that node; the root prints as "root".
C22_NameIsPathWithoutRoot ==
  \A n \in DOMAIN nodes :
    IF nodes[n].parent = 0
    THEN GetHierarchicalName(nodes, n) = <<"r", "o", "o", "t">>
    ELSE /\ GetHierarchicalName(nodes, n) = DotJoin(SegmentsTo(nodes, n))
         /\ FindOrCreateNode(nodes, 1,
                             ParseIntoArray(GetHierarchicalName(nodes, n)))
              = [nodes |-> nodes, node |-> n]

\* The session in flight has bound its scene: every node holds the transform
\* SetDataAndPtrsToParentClass gave it.
Bound == bIsExporting /\ "bind" \in Range(trace)

\* Points a transform is probed with.
Probes == -2..2

\* The matrix m maps every probe as applying first, then second, does.
MapsAsFirstThenSecond(m, first, second) ==
  \A x \in Probes :
    m.a1 * x + m.a4 = TransformPosition(second, TransformPosition(first, x))

\* FTransformCorrection values a bind could have been run with.
Corrections ==
  [scaleFactor : {1, 2}, bFlipX : BOOLEAN]

AnswersOfSession ==
  { rs \in Responses :
      \A k \in DOMAIN asked : asked[k].response = rs[asked[k].object] }

\* The tree as a newly constructed exporter holds it after the same calls of
\* AddNode and of the calls that add export objects.
NewExporterTree ==
  [n \in DOMAIN nodes |->
     [NewNode(nodes[n].name, nodes[n].parent) EXCEPT
        !.children = nodes[n].children,
        !.worldTransform = nodes[n].worldTransform,
        !.exportObjects = nodes[n].exportObjects]]

\* What the first session of a newly constructed exporter hands to the codec
\* for that tree, the answers rs and the parameter p, and the count it
\* reports.
FirstSession(rs, p) ==
  LET helper == GetNodesRecursive(NewExporterTree, 1, <<>>)
      g == GatherAllNodes(
             [nodes |-> NewExporterTree, numObjectsSkipped |-> 0,
              lines |-> <<>>, responses |-> rs, asked |-> <<>>,
              numGathered |-> 0, allNodesHelper |-> helper,
              currentNodeIndex |-> 0, finished |-> FALSE],
             helper)
      b == ProcessGatheredData_Internal(
             [nodes |-> g.nodes, meshes |-> <<>>, materials |-> <<>>,
              uniqueMaterials |-> <<>>, lines |-> <<>>],
             1, p)
  IN [meshes |-> [m \in DOMAIN b.meshes |-> BindMesh(b.meshes[m])],
      materials |-> b.materials,
      meshRefIndices |-> [n \in DOMAIN nodes |-> b.nodes[n].meshRefIndices],
      mTransformation |->
        [n \in DOMAIN nodes |-> BindNode(b.nodes, n, p).mTransformation],
      numObjectsSkipped |-> g.numObjectsSkipped]

\* What this session hands to the codec.
HandedToCodec ==
  [meshes |-> meshes, materials |-> materials,
   meshRefIndices |-> [n \in DOMAIN nodes |-> nodes[n].meshRefIndices],
   mTransformation |-> [n \in DOMAIN nodes |-> nodes[n].mTransformation],
   numObjectsSkipped |-> numObjectsSkipped]

\* C24: whatever sessions the exporter has run before, a session hands the
\* codec the mesh pool, the material pool, the mesh-index lists and the node
\* transforms that the first session of a new exporter with the same tree,
\* the same answers and the same parameter hands over, and reports the same
\* skipped count; so two sessions over an unchanged scene agree.
C24_SessionsRepeat ==
  \A rs \in AnswersOfSession :
    /\ InBindWindow => HandedToCodec = FirstSession(rs, param)
    /\ SyncReported =>
         result.numObjectsSkipped = FirstSession(rs, param).numObjectsSkipped
    /\ AsyncReported =>
         delivered.numObjectsSkipped
           = FirstSession(rs, param).numObjectsSkipped

\* C24 witness: a later session on the same exporter has bound a scene with
\* meshes in which an export object was skipped.
C24_Witness ==
  /\ RepeatedSession /\ InBindWindow /\ AnswersOfSession # {}
  /\ meshes # <<>> /\ numObjectsSkipped > 0

\* The nodes in the order in which the gathering visits them.
GatherOrder == GetNodesRecursive(nodes, 1, <<>>)

\* C30: the build visits the nodes in the order in which the gathering
\* visited them, siblings included, so that in the mesh pool the meshes of a
\* node gathered earlier stand before the meshes of a node gathered later.
C30_BuildOrderIsGatherOrder ==
  InBindWindow =>
    \A i, j \in DOMAIN GatherOrder :
      i < j =>
        \A x \in Range(nodes[GatherOrder[i]].meshRefIndices),
           y \in Range(nodes[GatherOrder[j]].meshRefIndices) : x < y

\* ------------------------------------------------------------ import: values
\* The transforms of the import side are axis-aligned: a scale per axis and
\* a translation, x |-> scale * x + translation on each axis. On these the
\* engine's FTransform arithmetic is the arithmetic of the matrices, and the
\* sign of the determinant is the sign of the product of the scales.
Axes == 1..3

Identity3 == [scale |-> <<1, 1, 1>>, translation |-> <<0, 0, 0>>]

\* FTransform::operator* : A * B applies A first, then B.
TransformMul3(A, B) ==
  [scale |-> [i \in Axes |-> A.scale[i] * B.scale[i]],
   translation |-> [i \in Axes |->
                      B.scale[i] * A.translation[i] + B.translation[i]]]

\* FTransform::TransformPosition.
TransformPosition3(T, v) ==
  [i \in Axes |-> T.scale[i] * v[i] + T.translation[i]]

\* aiMatrix4x4 of an axis-aligned transform: the scales on the diagonal
\* (a1, b2, c3) and the translation in the fourth column (a4, b4, c4).
AiMatrix(scale, translation) ==
  [a1 |-> scale[1], b2 |-> scale[2], c3 |-> scale[3],
   a4 |-> translation[1], b4 |-> translation[2], c4 |-> translation[3]]

\* URuntimeMeshImportExportLibrary::AiTransformToFTransform: the matrix is
\* transposed into an FMatrix, whose fourth row is the translation.
AiTransformToFTransform(m) ==
  [scale |-> <<m.a1, m.b2, m.c3>>, translation |-> <<m.a4, m.b4, m.c4>>]

\* A float coordinate of the result, as an exact fraction; a denominator of
\* zero stands for a value that is not finite.
FV(x) == [num |-> x, den |-> 1]

\* FVector of the result with the integer coordinates of v.
FVector(v) == [i \in Axes |-> FV(v[i])]

\* FName(): the name None.
NAME_None == "None"

\* ------------------------------------------------------------ import: files
\* aiMesh: the material index, the vertices, the optional per-vertex
\* attributes (an empty sequence when the mesh has none) and the faces, each
\* the sequence of its 0-based vertex indices.
AiMesh(materialIndex, vertices, normals, uvs, tangents, colors, faces) ==
  [mMaterialIndex |-> materialIndex, mVertices |-> vertices,
   mNormals |-> normals, mTextureCoords |-> uvs, mTangents |-> tangents,
   mColors |-> colors, mFaces |-> faces]

\* aiNode: mParent is 0 for the root, mChildren holds node numbers and
\* mMeshes 0-based indices into the meshes of the scene.
AiNode(name, parent, children, transformation, meshIndices) ==
  [mName |-> name, mParent |-> parent, mChildren |-> children,
   mTransformation |-> transformation, mMeshes |-> meshIndices]

\* A triangle with all optional attributes, material 0.
MeshFull ==
  AiMesh(0, << <<0, 0, 0>>, <<1, 0, 0>>, <<0, 1, 0>> >>,
         << <<0, 0, 1>>, <<0, 0, 1>>, <<0, 0, 1>> >>,
         << <<0, 0>>, <<1, 0>>, <<0, 1>> >>,
         << <<1, 0, 0>>, <<1, 0, 0>>, <<1, 0, 0>> >>,
         << "red", "green", "blue" >>,
         << <<0, 1, 2>> >>)

\* Two triangles on four vertices with no optional attribute, material 1.
MeshBare ==
  AiMesh(1, << <<0, 0, 2>>, <<2, 0, 2>>, <<0, 2, 2>>, <<2, 2, 2>> >>,
         <<>>, <<>>, <<>>, <<>>,
         << <<0, 1, 2>>, <<2, 1, 3>> >>)

\* A triangle with normals only, material 0.
MeshThird ==
  AiMesh(0, << <<3, 0, 0>>, <<3, 1, 0>>, <<3, 0, 1>> >>,
         << <<1, 0, 0>>, <<1, 0, 0>>, <<1, 0, 0>> >>,
         <<>>, <<>>, <<>>,
         << <<2, 0, 1>> >>)

\* A mesh that kept a line: aiProcess_Triangulate leaves points and lines
\* as they are.
MeshLine ==
  AiMesh(0, << <<0, 0, 0>>, <<1, 0, 0>> >>, <<>>, <<>>, <<>>, <<>>,
         << <<0, 1>> >>)

\* A scene whose nodes use the meshes under mirrored and unmirrored
\* transforms: "a" mirrors x, its child "c" mirrors y as well, "b" moves and
\* enlarges.
AiSceneTree ==
  [mNodes |->
     << AiNode("root", 0, <<2, 4>>, AiMatrix(<<1, 1, 1>>, <<0, 0, 0>>), <<>>),
        AiNode("a", 1, <<3>>, AiMatrix(<<-1, 1, 1>>, <<1, 0, 0>>), <<0, 1>>),
        AiNode("c", 2, <<>>, AiMatrix(<<1, -1, 1>>, <<0, 0, 0>>), <<0, 1>>),
        AiNode("b", 1, <<>>, AiMatrix(<<2, 2, 2>>, <<0, 1, 0>>),
               <<0, 1, 2>>) >>,
   mMeshes |-> <<MeshFull, MeshBare, MeshThird>>,
   mMaterials |-> <<"steel", "wood">>]

\* A scene of one node with one mesh.
AiSceneSingle ==
  [mNodes |->
     << AiNode("root", 0, <<>>, AiMatrix(<<1, 1, -1>>, <<0, 0, 0>>), <<1>>) >>,
   mMeshes |-> <<MeshFull, MeshBare>>,
   mMaterials |-> <<"steel", "wood">>]

\* A scene with materials and no mesh.
AiSceneMaterialsOnly ==
  [mNodes |->
     << AiNode("root", 0, <<>>, AiMatrix(<<1, 1, 1>>, <<0, 0, 0>>), <<>>) >>,
   mMeshes |-> <<>>,
   mMaterials |-> <<"steel">>]

\* A scene whose mesh has a face of two indices.
AiSceneLine ==
  [mNodes |->
     << AiNode("root", 0, <<>>, AiMatrix(<<1, 1, 1>>, <<0, 0, 0>>), <<0>>) >>,
   mMeshes |-> <<MeshLine>>,
   mMaterials |-> <<"steel">>]

\* No scene: what the scene pointer of a failed read points at is never read.
NoAiScene == [mNodes |-> <<>>, mMeshes |-> <<>>, mMaterials |-> <<>>]

\* What Assimp::Importer::ReadFile and GetErrorString give for a file:
\* bScene tells whether the scene pointer is other than null.
ImportFiles ==
  { [file |-> "", error |-> "", bScene |-> TRUE, scene |-> AiSceneSingle],
    [file |-> "broken.fbx", error |-> "parse error", bScene |-> FALSE,
     scene |-> NoAiScene],
    [file |-> "void.fbx", error |-> "", bScene |-> FALSE, scene |-> NoAiScene],
    [file |-> "materials.fbx", error |-> "", bScene |-> TRUE,
     scene |-> AiSceneMaterialsOnly],
    [file |-> "line.obj", error |-> "", bScene |-> TRUE, scene |-> AiSceneLine],
    [file |-> "single.obj", error |-> "", bScene |-> TRUE,
     scene |-> AiSceneSingle],
    [file |-> "tree.fbx", error |-> "", bScene |-> TRUE,
     scene |-> AiSceneTree] }

\* Assimp::Importer::ReadFile with GetErrorString for the path file.
ReadFile(file) == CHOOSE f \in ImportFiles : f.file = file

\* The transforms a caller passes to ImportScene.
CallerTransforms ==
  { Identity3,
    [scale |-> <<2, 2, 2>>, translation |-> <<1, 0, 0>>],
    [scale |-> <<1, -1, 1>>, translation |-> <<0, 0, 0>>] }

\* The arguments of ImportScene.
ImportArgs ==
  [file : { f.file : f \in ImportFiles },
   transform : CallerTransforms,
   importMethodMesh : {"Keep", "Merge"},
   importMethodSection : {"Keep", "Merge", "MergeSameMaterial"},
   bNormalizeScene : BOOLEAN]

\* What the run of an import does not decide: how often the codec reports
\* its progress, and the value of the IsValid byte that the constructor of
\* the total bounds leaves uninitialised.
ImportChoices == [updates : 0..MaxCodecUpdates, bIsValid : BOOLEAN]

\* FRuntimeMeshImportResult as an earlier import has left it.
StaleImportResult ==
  [bSuccess |-> TRUE,
   meshInfos |-> << [meshName |-> "old", sections |-> <<>>] >>,
   materialInfos |-> << [name |-> "old"] >>]

\* FRuntimeMeshImportResult as constructed.
NewImportResult ==
  [bSuccess |-> FALSE, meshInfos |-> <<>>, materialInfos |-> <<>>]

\* ------------------------------------------------------------ import: geometry
Sgn(x) == IF x > 0 THEN 1 ELSE IF x < 0 THEN -1 ELSE 0

\* FVector::GetSafeNormal of a vector along one axis.
GetSafeNormal(v) == [i \in Axes |-> Sgn(v[i])]

\* The direction of transformForNormal.TransformVector(n), transformForNormal
\* being the transposed inverse of the matrix of transform: n[i] / scale[i]
\* on each axis, here times the positive product of the sizes of the scales.
TransformForNormal(transform, n) ==
  LET Abs(x) == IF x < 0 THEN -x ELSE x
      others(i) == Abs(transform.scale[IF i = 1 THEN 2 ELSE 1])
                   * Abs(transform.scale[IF i = 3 THEN 2 ELSE 3])
  IN [i \in Axes |-> n[i] * Sgn(transform.scale[i]) * others(i)]

\* The triangle indices of ImportMeshesOfNode with all three indices of a
\* face reversed when the winding is flipped.
ImportTriangles_ReversesFace(mesh, transform) ==
  LET bFlipTriangleWindingOrder ==
        transform.scale[1] * transform.scale[2] * transform.scale[3] < 0
  IN Concat([f \in DOMAIN mesh.mFaces |->
               LET face == mesh.mFaces[f]
               IN IF bFlipTriangleWindingOrder
                  THEN <<face[3], face[2], face[1]>>
                  ELSE <<face[1], face[2], face[3]>>])

\* ImportMeshesOfNode, the triangles of one section: the faces in their
\* order, the second and the third index swapped when the product of the
\* scales of the transform is negative.
ImportTriangles(mesh, transform) ==
  LET bFlipTriangleWindingOrder ==
        transform.scale[1] * transform.scale[2] * transform.scale[3] < 0
  IN Concat([f \in DOMAIN mesh.mFaces |->
               LET face == mesh.mFaces[f]
               IN IF bFlipTriangleWindingOrder
                  THEN <<face[1], face[3], face[2]>>
                  ELSE <<face[1], face[2], face[3]>>])

\* ImportMeshesOfNode, the body of the loop over the meshes of the node: the
\* section made of the mesh under the transform.
ImportSection(scene, mesh, transform) ==
  LET numVertices == Len(mesh.mVertices)
  IN [materialName |-> scene.mMaterials[mesh.mMaterialIndex + 1],
      materialIndex |-> mesh.mMaterialIndex,
      vertices |-> [k \in 1..numVertices |->
                      FVector(TransformPosition3(transform,
                                                 mesh.mVertices[k]))],
      normals |-> IF mesh.mNormals # <<>>
                  THEN [k \in 1..numVertices |->
                          GetSafeNormal(
                            TransformForNormal(transform, mesh.mNormals[k]))]
                  ELSE [k \in 1..numVertices |-> <<0, 0, 0>>],
      uv0 |-> [k \in DOMAIN mesh.mTextureCoords |->
                 << mesh.mTextureCoords[k][1], -mesh.mTextureCoords[k][2] >>],
      tangents |-> [k \in DOMAIN mesh.mTangents |->
                      GetSafeNormal(mesh.mTangents[k])],
      vertexColors |-> mesh.mColors,
      triangles |-> ImportTriangles(mesh, transform)]

\* ImportMeshesOfNode: a node without meshes adds nothing, any other node
\* adds one mesh with one section per mesh of the node.
ImportMeshesOfNode(scene, n, meshInfos, nodeTransform) ==
  LET node == scene.mNodes[n]
  IN IF Len(node.mMeshes) = 0 THEN meshInfos
     ELSE Append(meshInfos,
                 [meshName |-> node.mName,
                  sections |->
                    [nodeMeshIndex \in DOMAIN node.mMeshes |->
                       ImportSection(
                         scene,
                         scene.mMeshes[node.mMeshes[nodeMeshIndex] + 1],
                         nodeTransform)]])

\* check(numIndices == 3) of ImportMeshesOfNode fails on the node.
HasOtherThanTriangle(scene, n) ==
  \E m \in Range(scene.mNodes[n].mMeshes) :
    \E face \in Range(scene.mMeshes[m + 1].mFaces) : Len(face) # 3

\* IterateSceneNodes: the nodes in the order the predicate is called on
\* them, a node before its children.
RECURSIVE IterateSceneNodes(_, _)
RECURSIVE IterateSceneChildren(_, _, _)
IterateSceneNodes(ns, n) == <<n>> \o IterateSceneChildren(ns, n, 1)

IterateSceneChildren(ns, n, m) ==
  IF m > Len(ns[n].mChildren) THEN <<>>
  ELSE IterateSceneNodes(ns, ns[n].mChildren[m])
       \o IterateSceneChildren(ns, n, m + 1)

\* BuildComposedNodeTransform: the transformations from the root down to
\* the node, composed onto transform.
RECURSIVE BuildComposedNodeTransform(_, _, _)
BuildComposedNodeTransform(ns, n, transform) ==
  LET above == IF ns[n].mParent # 0
               THEN BuildComposedNodeTransform(ns, ns[n].mParent, transform)
               ELSE transform
  IN TransformMul3(AiTransformToFTransform(ns[n].mTransformation), above)

\* ImportScene_AnyThread, the predicate called on every node: the composed
\* transform starts from a default FTransform, composedParentTransform (the
\* copy of the caller's transform) is captured and not used.
RECURSIVE ImportNodes(_, _, _)
ImportNodes(scene, order, meshInfos) ==
  IF order = <<>> THEN meshInfos
  ELSE LET composedNodeTransform ==
             BuildComposedNodeTransform(scene.mNodes, Head(order), Identity3)
       IN ImportNodes(scene, Tail(order),
                      ImportMeshesOfNode(scene, Head(order), meshInfos,
                                         composedNodeTransform))

\* ------------------------------------------------------------ import: merging
\* URuntimeMeshImportExportLibrary::OffsetTriangleArray.
OffsetTriangleArray(offset, triangles) ==
  [k \in DOMAIN triangles |-> triangles[k] + offset]

\* FRuntimeMeshImportSectionInfo::Append_Move without the offset of the
\* triangles of the other section.
Append_Move_NoOffset(this, other) ==
  [materialName |-> IF this.materialName = other.materialName
                    THEN this.materialName ELSE NAME_None,
   materialIndex |-> IF this.materialIndex = other.materialIndex
                     THEN this.materialIndex ELSE INDEX_NONE,
   vertices |-> this.vertices \o other.vertices,
   normals |-> this.normals \o other.normals,
   tangents |-> this.tangents \o other.tangents,
   vertexColors |-> this.vertexColors \o other.vertexColors,
   uv0 |-> this.uv0 \o other.uv0,
   triangles |-> this.triangles \o other.triangles]

\* FRuntimeMeshImportSectionInfo::Append_Move: this after other has been
\* appended to it.
Append_Move(this, other) ==
  [materialName |-> IF this.materialName = other.materialName
                    THEN this.materialName ELSE NAME_None,
   materialIndex |-> IF this.materialIndex = other.materialIndex
                     THEN this.materialIndex ELSE INDEX_NONE,
   vertices |-> this.vertices \o other.vertices,
   normals |-> this.normals \o other.normals,
   tangents |-> this.tangents \o other.tangents,
   vertexColors |-> this.vertexColors \o other.vertexColors,
   uv0 |-> this.uv0 \o other.uv0,
   triangles |-> this.triangles
                 \o OffsetTriangleArray(Len(this.vertices), other.triangles)]

\* MergeMeshes: the sections of all meshes in the first one, without a name.
MergeMeshes(meshInfos) ==
  IF Len(meshInfos) < 2 THEN meshInfos
  ELSE << [meshName |-> NAME_None,
           sections |-> Concat([m \in DOMAIN meshInfos |->
                                  meshInfos[m].sections])] >>

\* MergeAllSections: all sections appended to the first one.
RECURSIVE AppendAllSections(_, _)
AppendAllSections(first, others) ==
  IF others = <<>> THEN first
  ELSE AppendAllSections(Append_Move(first, Head(others)), Tail(others))

MergeAllSections(sectionInfos) ==
  IF Len(sectionInfos) < 2 THEN sectionInfos
  ELSE << AppendAllSections(Head(sectionInfos), Tail(sectionInfos)) >>

\* The place of the key in the map, 0 when the map has no such key.
MapIndexOf(map, key) ==
  IF \E k \in DOMAIN map : map[k].key = key
  THEN CHOOSE k \in DOMAIN map : map[k].key = key
  ELSE 0

\* MergeSectionsSameMaterial, the loop from the last section down to the
\* first: FindOrAdd on the material name, then the section is assigned when
\* what was found has no vertices and appended otherwise. The map keeps the
\* order in which its keys were added.
RECURSIVE MergeIntoMap(_, _, _)
MergeIntoMap(map, sectionInfos, i) ==
  IF i < 1 THEN map
  ELSE LET key == sectionInfos[i].materialName
           at == MapIndexOf(map, key)
           next ==
             IF at = 0
             THEN Append(map, [key |-> key, value |-> sectionInfos[i]])
             ELSE IF Len(map[at].value.vertices) = 0
             THEN [map EXCEPT ![at].value = sectionInfos[i]]
             ELSE [map EXCEPT ![at].value = Append_Move(@, sectionInfos[i])]
       IN MergeIntoMap(next, sectionInfos, i - 1)

\* MergeSectionsSameMaterial: GenerateValueArray of the map.
MergeSectionsSameMaterial(sectionInfos) ==
  LET map == MergeIntoMap(<<>>, sectionInfos, Len(sectionInfos))
  IN [k \in DOMAIN map |-> map[k].value]

\* ImportScene_AnyThread, the switch on importMethodMesh.
ApplyMeshMergePolicy(meshInfos, importMethodMesh) ==
  IF importMethodMesh = "Merge" THEN MergeMeshes(meshInfos) ELSE meshInfos

\* ImportScene_AnyThread, the switch on importMethodSection.
ApplySectionMergePolicy(meshInfos, importMethodSection) ==
  IF importMethodSection = "Keep" THEN meshInfos
  ELSE [m \in DOMAIN meshInfos |->
          [meshInfos[m] EXCEPT
             !.sections = IF importMethodSection = "Merge"
                          THEN MergeAllSections(@)
                          ELSE MergeSectionsSameMaterial(@)]]

\* ------------------------------------------------------------ import: scene
\* FBox(points): the box around the points, not valid without a point.
FBoxOfPoints(points) ==
  IF points = <<>>
  THEN [Min |-> <<0, 0, 0>>, Max |-> <<0, 0, 0>>, IsValid |-> FALSE]
  ELSE [Min |-> [i \in Axes |->
                   CHOOSE x \in { points[k][i].num : k \in DOMAIN points } :
                     \A k \in DOMAIN points : x <= points[k][i].num],
        Max |-> [i \in Axes |->
                   CHOOSE x \in { points[k][i].num : k \in DOMAIN points } :
                     \A k \in DOMAIN points : x >= points[k][i].num],
        IsValid |-> TRUE]

\* FBox::operator+=(const FBox&).
FBoxAdd(box, other) ==
  IF box.IsValid /\ other.IsValid
  THEN [Min |-> [i \in Axes |-> Min(box.Min[i], other.Min[i])],
        Max |-> [i \in Axes |-> IF box.Max[i] > other.Max[i]
                                THEN box.Max[i] ELSE other.Max[i]],
        IsValid |-> TRUE]
  ELSE IF other.IsValid THEN other
  ELSE box

\* ImportScene_AnyThread, the total bounds of all sections; bIsValid is what
\* the IsValid byte of the default-constructed box happens to hold.
RECURSIVE TotalBounds(_, _)
TotalBounds(box, sectionInfos) ==
  IF sectionInfos = <<>> THEN box
  ELSE TotalBounds(FBoxAdd(box, FBoxOfPoints(Head(sectionInfos).vertices)),
                   Tail(sectionInfos))

\* ImportScene_AnyThread, the normalisation: every vertex is moved by the
\* negated centre of the total bounds and scaled by 50 / the largest extent,
\* the extent being half of the size of the bounds.
NormalizeScene(meshInfos, bIsValid) ==
  LET totalBounds ==
        TotalBounds([Min |-> <<0, 0, 0>>, Max |-> <<0, 0, 0>>,
                     IsValid |-> bIsValid],
                    Concat([m \in DOMAIN meshInfos |-> meshInfos[m].sections]))
      size == [i \in Axes |-> totalBounds.Max[i] - totalBounds.Min[i]]
      largest == CHOOSE x \in Range(size) : \A i \in Axes : x >= size[i]
      Moved(vertex) ==
        [i \in Axes |->
           [num |-> 50 * (2 * vertex[i].num - totalBounds.Min[i]
                          - totalBounds.Max[i]),
            den |-> largest]]
  IN [m \in DOMAIN meshInfos |->
        [meshInfos[m] EXCEPT
           !.sections =
              [k \in DOMAIN @ |->
                 [@[k] EXCEPT
                    !.vertices = [v \in DOMAIN @ |-> Moved(@[v])]]]]]

\* ImportSceneMaterials: one material info per material of the scene.
ImportSceneMaterials(scene, materialInfos) ==
  materialInfos \o [k \in DOMAIN scene.mMaterials |->
                      [name |-> scene.mMaterials[k]]]

\* FRuntimeMeshImportResult with nothing reset at the start of an import.
ResetImportResult_KeepsAll(res) == res

\* ImportScene_AnyThread, the first three statements.
ResetImportResult(res) ==
  [res EXCEPT !.bSuccess = FALSE, !.meshInfos = <<>>, !.materialInfos = <<>>]

\* The call of ImportScene_AnyThread on the thread named thread with the
\* result record res, before its first statement.
ImportCall(args, choices, callbackProgress, callbackFinished, thread, res) ==
  [pc |-> "entry", thread |-> thread, args |-> args, choices |-> choices,
   callbackProgress |-> callbackProgress,
   callbackFinished |-> callbackFinished,
   read |-> ReadFile(""), result |-> res, stages |-> <<>>,
   imported |-> <<>>, policed |-> <<>>, merged |-> <<>>,
   caller |-> res]

\* One stage of ImportScene_AnyThread: the call after the stage, the
\* progress notifications the stage sends and the fatal check it trips.
ImportStep(im) ==
  LET a == im.args
      scene == im.read.scene
      Sent(type, n) == [k \in 1..n |-> ProgressUpdate(type, k, n, im.thread)]
      Out(next, updates) ==
        [im |-> next, updates |-> updates, crashed |-> ""]
  IN CASE im.pc = "entry" ->
            Out([im EXCEPT !.result = ResetImportResult(@),
                           !.pc = IF a.file = "" THEN "returned" ELSE "read"],
                <<>>)
       [] im.pc = "read" ->
            LET read == ReadFile(a.file)
            IN Out([im EXCEPT !.read = read,
                              !.stages = Append(@, "ReadFile"),
                              !.pc = IF read.error # "" \/ ~read.bScene
                                     THEN "returned" ELSE "geometry"],
                   Sent("AssimpFileRead", im.choices.updates))
       [] im.pc = "geometry" ->
            LET order == IterateSceneNodes(scene.mNodes, 1)
            IN IF scene.mMeshes = <<>>
               THEN Out([im EXCEPT !.pc = "materials"], <<>>)
               ELSE IF \E k \in DOMAIN order :
                         HasOtherThanTriangle(scene, order[k])
               THEN [im |-> im, updates |-> <<>>,
                     crashed |-> "check(numIndices == 3)"]
               ELSE LET meshInfos ==
                          ImportNodes(scene, order, im.result.meshInfos)
                    IN Out([im EXCEPT !.result.meshInfos = meshInfos,
                                      !.imported = meshInfos,
                                      !.stages = Append(@, "ImportGeometry"),
                                      !.pc = IF meshInfos = <<>>
                                             THEN "normalize"
                                             ELSE "meshPolicy"],
                           Sent("ImportingMeshes", Len(order)))
       [] im.pc = "meshPolicy" ->
            LET meshInfos ==
                  ApplyMeshMergePolicy(im.result.meshInfos, a.importMethodMesh)
            IN Out([im EXCEPT !.result.meshInfos = meshInfos,
                              !.policed = meshInfos,
                              !.stages = Append(@, "ApplyMeshMergePolicy"),
                              !.pc = "sectionPolicy"],
                   <<>>)
       [] im.pc = "sectionPolicy" ->
            LET meshInfos ==
                  ApplySectionMergePolicy(im.result.meshInfos,
                                          a.importMethodSection)
            IN Out([im EXCEPT !.result.meshInfos = meshInfos,
                              !.merged = meshInfos,
                              !.stages = Append(@, "ApplySectionMergePolicy"),
                              !.pc = "normalize"],
                   <<>>)
       [] im.pc = "normalize" ->
            IF a.bNormalizeScene
            THEN Out([im EXCEPT
                        !.result.meshInfos =
                           NormalizeScene(@, im.choices.bIsValid),
                        !.stages = Append(@, "ApplyNormalization"),
                        !.pc = "materials"],
                     <<>>)
            ELSE Out([im EXCEPT !.pc = "materials"], <<>>)
       [] im.pc = "materials" ->
            LET bMeshImportSucces == scene.mMeshes # <<>>
                done == [im EXCEPT !.result.bSuccess = bMeshImportSucces,
                                   !.pc = "returned"]
            IN IF a.importMethodSection # "Merge" /\ scene.mMaterials # <<>>
               THEN Out([done EXCEPT
                           !.result.materialInfos =
                              ImportSceneMaterials(scene, @),
                           !.stages = Append(@, "ImportMaterials")],
                        Sent("ImportingMaterials", Len(scene.mMaterials)))
               ELSE Out(done, <<>>)

\* ImportScene_AnyThread from the stage the call is at to its return or to
\* the fatal check it trips.
RECURSIVE ImportRun(_, _)
ImportRun(im, updates) ==
  IF im.pc = "returned"
  THEN [im |-> im, updates |-> updates, crashed |-> ""]
  ELSE LET step == ImportStep(im)
       IN IF step.crashed # ""
          THEN [step EXCEPT !.updates = updates \o @]
          ELSE ImportRun(step.im, updates \o step.updates)

\* ------------------------------------------------------------ import: actions
\* What an import leaves alone: the exporter, its scene and its session.
ImportFrame ==
  UNCHANGED <<sceneVars, exporterVars, result, param, gtPc,
              bExportSuccessful, clearPos, workerPc, asked, trace, fired,
              delivered>>

\* URuntimeMeshImportExportLibrary::ImportScene on the result record the
\* caller passes in: ImportScene_AnyThread on the game thread with a
\* progress delegate that is not bound.
ImportScene(args, choices) ==
  LET run == ImportRun(ImportCall(args, choices, FALSE, FALSE, "game thread",
                                  StaleImportResult),
                       <<>>)
  IN /\ GameThreadFree
     /\ calls < MaxCalls
     /\ calls' = calls + 1
     /\ import' = [run.im EXCEPT !.caller = run.im.result]
     /\ progress' = SendAllProgress([progress EXCEPT !.delivered = {}],
                                    FALSE, run.updates)
     /\ crashed' = run.crashed
     /\ lastOp' = "ImportScene"
     /\ UNCHANGED gameThreadTasks
     /\ ImportFrame

\* URuntimeMeshImportExportLibrary::ImportScene_Async_Cpp: the task for any
\* thread is queued; it allocates the result record. The model follows one
\* import at a time.
ImportScene_Async_Cpp(args, choices, callbackProgress, callbackFinished) ==
  /\ GameThreadFree
  /\ calls < MaxCalls
  /\ calls' = calls + 1
  /\ import.pc \in {"none", "returned", "finished"}
  /\ import.pc = "returned" => import.thread = "game thread"
  /\ import' = [ImportCall(args, choices, callbackProgress, callbackFinished,
                           "worker", NewImportResult)
                  EXCEPT !.caller = StaleImportResult]
  /\ progress' = [progress EXCEPT !.delivered = {}]
  /\ lastOp' = "ImportScene_Async_Cpp"
  /\ UNCHANGED <<gameThreadTasks, crashed>>
  /\ ImportFrame

\* The task of ImportScene_Async_Cpp on the worker, one stage of
\* ImportScene_AnyThread at a time; after the return the task for the game
\* thread is queued.
ImportWorker ==
  /\ crashed = ""
  /\ import.pc \notin {"none", "returned", "finished"}
  /\ import.thread = "worker"
  /\ LET step == ImportStep(import)
     IN /\ import' = step.im
        /\ crashed' = step.crashed
        /\ progress' = SendAllProgress(progress, import.callbackProgress,
                                       step.updates)
        /\ gameThreadTasks' =
             LET tasks == WithProgressTasks(gameThreadTasks,
                                            Len(step.updates))
             IN IF step.im.pc = "returned" /\ step.crashed = ""
                THEN Append(tasks, "ImportFinished")
                ELSE tasks
  /\ lastOp' = "ImportScene_AnyThread"
  /\ UNCHANGED calls
  /\ ImportFrame

\* The game thread task of ImportScene_Async_Cpp: the result is moved into
\* the finished callback if that is bound, and the record must hold no mesh
\* afterwards.
ImportFinished ==
  /\ GameThreadFree
  /\ gameThreadTasks # <<>> /\ Head(gameThreadTasks) = "ImportFinished"
  /\ gameThreadTasks' = Tail(gameThreadTasks)
  /\ IF import.callbackFinished
     THEN /\ import' = [import EXCEPT !.caller = import.result,
                                      !.result = NewImportResult,
                                      !.pc = "finished"]
          /\ UNCHANGED crashed
     ELSE /\ import' = [import EXCEPT !.pc = "finished"]
          /\ crashed' = IF import.result.meshInfos # <<>>
                        THEN "check(result->meshInfos.Num() == 0)"
                        ELSE crashed
  /\ lastOp' = "ImportScene_Async_Cpp:finished"
  /\ UNCHANGED <<progress, calls>>
  /\ ImportFrame

\* ------------------------------------------------------------ library spec
\* An exporter with two export objects registered on its root node, and one
\* call left of the calls of a behaviour.
InitLibrary ==
  /\ nodes = AddExportObjectsTo(<< NewNode(<<>>, 0) >>, <<"e1", "e2">>,
                                FALSE, <<>>)
  /\ meshes = <<>>
  /\ materials = <<>>
  /\ uniqueMaterials = <<>>
  /\ aiScene = UnboundAiScene
  /\ numObjectsSkipped = 0
  /\ exportLog = NULL
  /\ allNodesHelper = <<>>
  /\ gather = [currentNodeIndex |-> 0, numGatherPerTick |-> -1,
               delegateProgress |-> FALSE, gatherMeshDataTicker |-> FALSE]
  /\ bIsExporting = FALSE
  /\ aiExporterReturn = "aiReturn_FAILURE"
  /\ aiExporterError = <<>>
  /\ asyncResult = EmptyResult
  /\ delegates = [progress |-> FALSE, gatherDone |-> FALSE, finished |-> FALSE]
  /\ result = StaleResult
  /\ param = NoParam
  /\ gtPc = "idle"
  /\ bExportSuccessful = FALSE
  /\ clearPos = 0
  /\ gameThreadTasks = <<>>
  /\ workerPc = "none"
  /\ crashed = ""
  /\ calls = MaxCalls - 1
  /\ lastOp = "AddExportObjects"
  /\ asked = <<>>
  /\ trace = <<>>
  /\ fired = NothingFired
  /\ delivered = EmptyResult
  /\ progress = NoProgress
  /\ import = NoImport

LibraryNext ==
  \/ \E a \in ImportArgs, c \in ImportChoices : ImportScene(a, c)
  \/ \E a \in ImportArgs, c \in ImportChoices, p, f \in BOOLEAN :
       ImportScene_Async_Cpp(a, c, p, f)
  \/ ImportWorker
  \/ ImportFinished
  \/ SendProgressTask
  \/ \E p \in AsyncParams, pre \in PreChecks : Export_Async_Cpp(p, pre)
  \/ Tick
  \/ TickTail
  \/ ResetTicker
  \/ WorkerBuild
  \/ WorkerBind
  \/ WorkerCodec
  \/ WorkerClear
  \/ WorkerDone
  \/ AsyncPost
  \/ AsyncClear
  \/ AsyncFinish

LibrarySpec == InitLibrary /\ [][LibraryNext]_vars

\* ------------------------------------------------------------ properties, 4
\* The progress notifications that originate on the worker: the codec's on
\* export, and the codec's, the meshes' and the materials' on an
\* asynchronous import.
FromWorker(d) == d.from = "worker"

\* C25: every progress notification that reaches the caller's delegate, be
\* it of gathering, of the codec on export, or of the codec, the meshes or
\* the materials on import, is delivered on the game thread, also when it
\* was sent from the worker; and what waits in a game thread task was sent
\* from the worker.
C25_ProgressOnOwningThread ==
  /\ \A d \in progress.delivered : d.on = "game thread"
  /\ \A k \in DOMAIN progress.queued : FromWorker(progress.queued[k].update)
  /\ Len(progress.queued)
       = Cardinality({ k \in DOMAIN gameThreadTasks :
                         gameThreadTasks[k] = "SendProgress" })

\* C25 witness: an asynchronous import has delivered a notification of the
\* codec, of the meshes and of the materials, each sent from the worker.
C25_Witness ==
  \A type \in {"AssimpFileRead", "ImportingMeshes", "ImportingMaterials"} :
    \E d \in progress.delivered : d.type = type /\ FromWorker(d)

\* The position v of a mesh of node n in the space of the scene: the
\* transformation of the node, then those of its ancestors up to the root.
RECURSIVE ToSceneSpace(_, _, _)
ToSceneSpace(ns, n, v) ==
  LET p == TransformPosition3(AiTransformToFTransform(ns[n].mTransformation),
                              v)
  IN IF ns[n].mParent = 0 THEN p ELSE ToSceneSpace(ns, ns[n].mParent, p)

\* The nodes of the scene that have meshes, in the order of the import: the
\* k-th of them makes the k-th mesh of the result.
MeshNodes(scene) ==
  LET order == IterateSceneNodes(scene.mNodes, 1)
      Keep(n) == Len(scene.mNodes[n].mMeshes) > 0
  IN SelectSeq(order, Keep)

\* The geometry of an import has been made; import.imported holds it as it
\* was before any merge policy and normalisation.
GeometryImported ==
  /\ import.pc # "none"
  /\ "ImportGeometry" \in Range(import.stages)

\* C26: the caller's transform is applied to the imported scene: every
\* imported vertex is the file's vertex moved by the transformations of its
\* node and the node's ancestors and then by the caller's transform.
C26_CallerTransformApplied ==
  GeometryImported =>
    LET scene == import.read.scene
        from == MeshNodes(scene)
    IN \A k \in DOMAIN import.imported :
         \A j \in DOMAIN import.imported[k].sections :
           LET mesh == scene.mMeshes[scene.mNodes[from[k]].mMeshes[j] + 1]
               section == import.imported[k].sections[j]
           IN \A v \in DOMAIN mesh.mVertices :
                section.vertices[v]
                  = FVector(TransformPosition3(
                              import.args.transform,
                              ToSceneSpace(scene.mNodes, from[k],
                                           mesh.mVertices[v])))

\* The import in flight or returned is one of an empty path, of a file the
\* codec reports an error for, or of a file the codec gives no scene for.
FailsFast ==
  /\ import.pc # "none"
  /\ \/ import.args.file = ""
     \/ ReadFile(import.args.file).error # ""
     \/ ~ReadFile(import.args.file).bScene

\* The caller has the result of the import: ImportScene has returned, or the
\* finished callback of ImportScene_Async_Cpp was bound and has run.
CallerHasResult ==
  /\ import.pc # "none"
  /\ \/ import.pc = "returned" /\ import.thread = "game thread"
     \/ import.pc = "finished" /\ import.callbackFinished

\* C27: an import of an empty path, of a file with a read error or of a
\* file without a scene runs no stage after the read (none at all for the
\* empty path), and the caller gets bSuccess false with no mesh and no
\* material, whatever the result record held before the call.
C27_ImportFailsFast ==
  FailsFast =>
    /\ import.pc \in {"entry", "read", "returned", "finished"}
    /\ import.stages
         \in (IF import.args.file = "" THEN {<<>>}
              ELSE {<<>>, <<"ReadFile">>})
    /\ import.pc = "returned" => import.result = NewImportResult
    /\ CallerHasResult => import.caller = NewImportResult

\* C27 witness: ImportScene has returned for a file with a read error, on a
\* result record that held a mesh, a material and bSuccess true.
C27_Witness ==
  /\ FailsFast /\ CallerHasResult
  /\ import.thread = "game thread"
  /\ import.read.error # ""
  /\ StaleImportResult.bSuccess /\ StaleImportResult.meshInfos # <<>>
  /\ ~import.caller.bSuccess

\* The sign of the determinant of the transform a mesh of node n is imported
\* under: the product of the signs of the determinants of the
\* transformations of the node and of its ancestors.
RECURSIVE DeterminantSign(_, _)
DeterminantSign(ns, n) ==
  LET m == ns[n].mTransformation
      own == Sgn(m.a1) * Sgn(m.b2) * Sgn(m.c3)
  IN IF ns[n].mParent = 0 THEN own
     ELSE own * DeterminantSign(ns, ns[n].mParent)

\* C28: of two imports of one mesh, one under a transform with negative
\* determinant and one under a transform with positive determinant, the
\* first has the second and the third index of every face swapped against
\* the second; the first index of every face and the order of the faces
\* are the same in both.
C28_WindingFlip ==
  GeometryImported =>
    LET scene == import.read.scene
        from == MeshNodes(scene)
        Slots == { <<k, j>> \in (DOMAIN import.imported) \X (1..3) :
                     j \in DOMAIN import.imported[k].sections }
        MeshOf(s) == scene.mNodes[from[s[1]]].mMeshes[s[2]]
        Sign(s) == DeterminantSign(scene.mNodes, from[s[1]])
        Tri(s) == import.imported[s[1]].sections[s[2]].triangles
    IN \A neg \in Slots, pos \in Slots :
         (MeshOf(neg) = MeshOf(pos) /\ Sign(neg) < 0 /\ Sign(pos) > 0)
           => /\ Len(Tri(neg)) = Len(Tri(pos))
              /\ Len(Tri(pos)) = 3 * Len(scene.mMeshes[MeshOf(pos) + 1].mFaces)
              /\ \A f \in 0..(Len(Tri(pos)) \div 3 - 1) :
                   /\ Tri(neg)[3 * f + 1] = Tri(pos)[3 * f + 1]
                   /\ Tri(neg)[3 * f + 2] = Tri(pos)[3 * f + 3]
                   /\ Tri(neg)[3 * f + 3] = Tri(pos)[3 * f + 2]
                   /\ Tri(pos)[3 * f + 2] # Tri(pos)[3 * f + 3]

\* C28 witness: an import has made a mesh of two faces once under a single
\* mirrored axis, once under two mirrored axes and once under none.
C28_Witness ==
  /\ GeometryImported
  /\ LET scene == import.read.scene
         from == MeshNodes(scene)
         Under(sign, own) ==
           \E k \in DOMAIN import.imported :
             /\ DeterminantSign(scene.mNodes, from[k]) = sign
             /\ LET m == scene.mNodes[from[k]].mTransformation
                IN Sgn(m.a1) * Sgn(m.b2) * Sgn(m.c3) = own
             /\ \E j \in DOMAIN import.imported[k].sections :
                  /\ scene.mNodes[from[k]].mMeshes[j] = 1
                  /\ Len(import.imported[k].sections[j].triangles) = 6
     IN Under(-1, -1) /\ Under(1, -1) /\ Under(1, 1)

\* All sections of the meshes, in order.
AllSections(meshInfos) ==
  Concat([m \in DOMAIN meshInfos |-> meshInfos[m].sections])

\* The triangles of the sections, each as the positions of its three
\* corners in the order of its indices.
CornersOf(sectionInfos) ==
  Concat([k \in DOMAIN sectionInfos |->
            LET section == sectionInfos[k]
            IN [f \in 1..(Len(section.triangles) \div 3) |->
                  << section.vertices[section.triangles[3 * f - 2] + 1],
                     section.vertices[section.triangles[3 * f - 1] + 1],
                     section.vertices[section.triangles[3 * f] + 1] >>]])

\* The sequences hold the same elements the same number of times.
SameBag(s, t) ==
  LET Count(seq, x) == Cardinality({ k \in DOMAIN seq : seq[k] = x })
  IN /\ Len(s) = Len(t)
     /\ \A x \in Range(s) : Count(s, x) = Count(t, x)

\* The sum of the numbers of vertices of the sections.
RECURSIVE NumVertices(_)
NumVertices(sectionInfos) ==
  IF sectionInfos = <<>> THEN 0
  ELSE Len(Head(sectionInfos).vertices) + NumVertices(Tail(sectionInfos))

\* Every triangle index of the sections is an index of a vertex of its
\* section.
IndicesInRange(sectionInfos) ==
  \A k \in DOMAIN sectionInfos :
    /\ Len(sectionInfos[k].triangles) % 3 = 0
    /\ \A i \in Range(sectionInfos[k].triangles) :
         i >= 0 /\ i < Len(sectionInfos[k].vertices)

\* Both merge policies of the import have been applied.
PoliciesApplied ==
  /\ import.pc # "none"
  /\ "ApplySectionMergePolicy" \in Range(import.stages)

\* C29: the mesh policy is applied before the section policy; Merge of
\* meshes leaves at most one mesh, Merge of sections at most one section in
\* every mesh, MergeSameMaterial at most one section per material name in
\* every mesh; and each policy keeps the numbers of vertices and triangles
\* and the corners of every triangle.
C29_MergePolicies ==
  PoliciesApplied =>
    LET before == import.imported
        between == import.policed
        after == import.merged
        a == import.args
    IN /\ \E i, j \in DOMAIN import.stages :
            /\ i < j
            /\ import.stages[i] = "ApplyMeshMergePolicy"
            /\ import.stages[j] = "ApplySectionMergePolicy"
       /\ a.importMethodMesh = "Merge" => Len(between) = 1 /\ Len(after) = 1
       /\ a.importMethodMesh = "Keep" => between = before
       /\ Len(after) = Len(between)
       /\ \A m \in DOMAIN after :
            LET pre == between[m].sections
                post == after[m].sections
            IN /\ a.importMethodSection = "Merge" => Len(post) <= 1
               /\ a.importMethodSection = "MergeSameMaterial" =>
                    \A k, l \in DOMAIN post :
                      post[k].materialName = post[l].materialName => k = l
               /\ a.importMethodSection = "Keep" => post = pre
               /\ NumVertices(post) = NumVertices(pre)
               /\ IndicesInRange(post)
               /\ SameBag(CornersOf(post), CornersOf(pre))
       /\ NumVertices(AllSections(between)) = NumVertices(AllSections(before))
       /\ SameBag(CornersOf(AllSections(between)),
                  CornersOf(AllSections(before)))
       /\ IndicesInRange(AllSections(before))

\* C29 witness: three meshes of seven sections were merged into one mesh,
\* and its sections into one per material name, fewer than before.
C29_Witness ==
  /\ PoliciesApplied
  /\ import.args.importMethodMesh = "Merge"
  /\ import.args.importMethodSection = "MergeSameMaterial"
  /\ Len(import.imported) = 3
  /\ Len(AllSections(import.imported)) = 7
  /\ Len(import.merged) = 1
  /\ Len(import.merged[1].sections) = 2
  /\ Len(CornersOf(AllSections(import.merged))) > 2

\* ------------------------------------------------------------ properties, 5
\* C38: whenever the caller gets a result with bSuccess false, the result
\* holds no mesh and no material, whatever the file holds, a scene with
\* materials and without meshes included.
C38_FailureCarriesNoData ==
  (CallerHasResult /\ ~import.caller.bSuccess)
    => /\ import.caller.meshInfos = <<>>
       /\ import.caller.materialInfos = <<>>

\* The pairs of a vertex of the sections and its entry in the attribute
\* array the sections have under the name of getter.
AttributePairs(sectionInfos, Attribute(_)) ==
  UNION { { << sectionInfos[k].vertices[i], Attribute(sectionInfos[k])[i] >> :
            i \in DOMAIN Attribute(sectionInfos[k]) } :
          k \in DOMAIN sectionInfos }

\* The attribute array of the section is empty or has one entry per vertex,
\* each the entry its vertex had when it was imported.
PerVertexOrEmpty(section, Attribute(_)) ==
  \/ Attribute(section) = <<>>
  \/ /\ Len(Attribute(section)) = Len(section.vertices)
     /\ AttributePairs(<<section>>, Attribute)
          \subseteq AttributePairs(AllSections(import.imported), Attribute)

Uv0Of(section) == section.uv0
TangentsOf(section) == section.tangents
VertexColorsOf(section) == section.vertexColors

\* C39: in every section of an import result, under every mesh and section
\* policy, normals have one entry per vertex and each of uv0, tangents and
\* vertexColors is empty or has one entry per vertex, entry i being that of
\* vertex i, also after sections with an attribute were merged with
\* sections without it.
C39_AttributesPerVertex ==
  PoliciesApplied =>
    \A section \in Range(AllSections(import.merged)) :
      /\ Len(section.normals) = Len(section.vertices)
      /\ PerVertexOrEmpty(section, Uv0Of)
      /\ PerVertexOrEmpty(section, TangentsOf)
      /\ PerVertexOrEmpty(section, VertexColorsOf)

\* Gathering is under way or has just ended: the ticker of an asynchronous
\* session is alive, or PrepareSceneForExport has left its loop.
GatheringStarted ==
  \/ gather.gatherMeshDataTicker
  \/ gtPc = "sync_build"

\* C31: once gathering has started in a session, the first or a later one
\* of the exporter, allNodesHelper is the pre-order traversal of the tree
\* with every node in it exactly once, and every notification of gathering
\* progress reports the number of nodes of the tree as its total.
C31_NodeListIsPreOrder ==
  GatheringStarted =>
    /\ allNodesHelper = GatherOrder
    /\ Len(allNodesHelper) = Len(nodes)
    /\ \A n \in DOMAIN nodes :
         Cardinality({ k \in DOMAIN allNodesHelper : allNodesHelper[k] = n })
           = 1
    /\ \A d \in progress.delivered :
         d.type = "GatheringMeshs" => d.max = Len(nodes)

\* Post-processing has finished and the exporter is idle again.
IdleAfterPost ==
  /\ gtPc = "idle" /\ ~bIsExporting
  /\ lastOp \in {"Export:returned", "Export_Async_Finish:returned"}

\* No pointer or count field of the node, as the codec sees it, is bound.
NodeUnbound(node) ==
  /\ node.mMeshes = NULL /\ node.mNumMeshes = 0
  /\ node.mChildren = NULL /\ node.mNumChildren = 0

\* C32: when post-processing has finished and the exporter is idle again,
\* the scene's log sink is null, the scene's skipped counter is zero, and
\* every bound pointer and count field of the scene and of every node is
\* null or zero.
C32_SessionStateCleared ==
  IdleAfterPost =>
    /\ exportLog = NULL
    /\ numObjectsSkipped = 0
    /\ aiScene = UnboundAiScene
    /\ \A n \in DOMAIN nodes : NodeUnbound(nodes[n])

\* The worker context owns the scene: from the hand-off at the end of
\* gathering (onGameThreadPrepareFinished) until Export_Async_AnyThread has
\* queued Export_Async_Finish for the game thread.
WorkerPhase == workerPc # "none"

\* A step of the game thread inside PrepareSceneForExport_Update: its guards
\* read numGatherPerTick, currentNodeIndex and allNodesHelper, its loop
\* writes the gather cursor and the gathered buffers, and its last statement
\* reads delegateProgress and currentNodeIndex.
UpdateStep == Tick \/ TickTail

\* C33: in the asynchronous path, from the hand-off to the worker until the
\* finish step is marshalled back, the game thread takes no step that reads
\* or writes the scene state the worker phase writes (gather cursor,
\* progress delegate, gathered buffers, pools, bound pointers), whatever the
\* interleaving of the two threads.
C33_PhaseSeparation == [][WorkerPhase => ~UpdateStep]_vars

\* C34: after gathering is exhausted in an asynchronous session
\* PrepareSceneForExport_Update is not entered again in that session, so
\* neither of the fatal guards at its top (currentNodeIndex past the last
\* node, numGatherPerTick not positive) is ever hit, whatever the order of
\* ticks, of the queued task that resets the ticker and of the worker's
\* ClearSceneExportData.
C34_NoTickAfterGatherEnd ==
  /\ lastOp # "Tick:fatal"
  /\ crashed # "checkNoEntry()"
  /\ crashed # "check(numGatherPerTick > 0)"

\* One bulk gathering pass (the loop of PrepareSceneForExport) over the
\* tree as it is registered, buffers empty and cursors at zero, the
\* exportables answering rs.
BulkPass(rs) ==
  GatherAllNodes(
    [nodes |-> [n \in DOMAIN nodes |-> ClearNodeMeshData(nodes[n])],
     numObjectsSkipped |-> 0, lines |-> <<>>, responses |-> rs,
     asked |-> <<>>, numGathered |-> 0, allNodesHelper |-> GatherOrder,
     currentNodeIndex |-> 0, finished |-> FALSE],
    GatherOrder)

\* The tick that exhausted the node list has just handed off.
IncrementalGatherEnded == AsyncInFlight /\ lastOp = "Tick:gather done"

\* C35: incremental gathering, with a budget of one or of more per tick,
\* ends with the buffers, the cursors and the skipped count that one bulk
\* pass over the same tree with the same answers gives, and has asked the
\* same export objects in the same order.
C35_IncrementalEqualsBulk ==
  IncrementalGatherEnded =>
    \A rs \in AnswersOfSession :
      /\ BulkPass(rs).nodes = nodes
      /\ BulkPass(rs).numObjectsSkipped = numObjectsSkipped
      /\ BulkPass(rs).asked = asked

\* Two export objects were asked over two ticks of budget one; one answer
\* was buffered and one skipped.
C35_Witness ==
  /\ IncrementalGatherEnded /\ AnswersOfSession # {}
  /\ gather.numGatherPerTick = 1
  /\ Len(asked) = 2 /\ numObjectsSkipped = 1

\* The six per-vertex arrays of a mesh have the bound vertex count as their
\* length, and the faces are the bound number of triangles.
MeshArraysCoverCounts(mesh) ==
  /\ mesh.mNumVertices = Len(mesh.vertices)
  /\ mesh.mNumVertices > 0 => mesh.mVertices # NULL
  /\ Len(mesh.normals) = mesh.mNumVertices
  /\ Len(mesh.tangents) = mesh.mNumVertices
  /\ Len(mesh.bitangents) = mesh.mNumVertices
  /\ Len(mesh.vertexColors) = mesh.mNumVertices
  /\ Len(mesh.textureCoordinates) = mesh.mNumVertices
  /\ mesh.mNumFaces = Len(mesh.faces)
  /\ mesh.mNumFaces > 0 => mesh.mFaces # NULL
  /\ \A f \in DOMAIN mesh.faces :
       mesh.faces[f].mNumIndices = 3 /\ Len(mesh.faces[f].mIndices) = 3

\* All triangle indices of the accepted sections of node n.
AcceptedTriangles(n) ==
  Concat([k \in DOMAIN AcceptedSections(n) |->
            AcceptedSections(n)[k].triangles])

\* The number of faces in the meshes of node n.
NumFacesOf(n) ==
  Len(Concat([i \in DOMAIN MeshesOf(n) |-> MeshesOf(n)[i].faces]))

\* C36: at bind time every mesh of the pool has positions, normals,
\* tangents, bitangents, vertex colours and first-channel texture
\* coordinates of one length, its bound vertex count, and a third as many
\* faces as the sections it was made from have triangle indices, each face
\* of three indices; with bCombineSameMaterial and without.
C36_MeshArraysAligned ==
  InBindWindow =>
    /\ \A m \in DOMAIN meshes : MeshArraysCoverCounts(meshes[m])
    /\ \A n \in DOMAIN nodes :
         /\ 3 * NumFacesOf(n) = Len(AcceptedTriangles(n))
         /\ ~param.bCombineSameMaterial
              => \A i \in DOMAIN MeshesOf(n) :
                   3 * Len(MeshesOf(n)[i].faces)
                     = Len(GroupedSections(n)[i].triangles)

\* Two sections of one handle were combined into a mesh of five vertices
\* and two faces, next to a mesh of another handle.
C36_Witness ==
  /\ InBindWindow /\ param.bCombineSameMaterial
  /\ Len(meshes) >= 2
  /\ \E m \in DOMAIN meshes :
       /\ meshes[m].mNumVertices = 5 /\ meshes[m].mNumFaces = 2
       /\ Len(meshes[m].bitangents) = 5

\* What the registrations made of the scene: the tree, the names, the world
\* transforms and every node's export objects in their order.
RegisteredScene(ns) ==
  [n \in DOMAIN ns |->
     [name |-> ns[n].name, parent |-> ns[n].parent,
      children |-> ns[n].children,
      worldTransform |-> ns[n].worldTransform,
      exportObjects |-> ns[n].exportObjects]]

\* The scene holds nothing a session made.
ExportDataEmpty ==
  /\ meshes = <<>> /\ materials = <<>> /\ uniqueMaterials = <<>>
  /\ \A n \in DOMAIN nodes :
       /\ nodes[n].meshRefIndices = <<>>
       /\ nodes[n].gatheredExportables = <<>>
       /\ nodes[n].indexGatherNext = 0

\* C37: no step of an export session, from its acceptance to its end,
\* changes the node tree, the names, the world transforms or a node's list
\* of export objects, and the step that ends the session, successful or
\* failed, leaves both pools, the unique-material index and every node's
\* mesh-index list, gathered buffers and gather cursor empty or zero.
C37_SessionLeavesSceneUnchanged ==
  [][/\ (bIsExporting \/ bIsExporting')
          => RegisteredScene(nodes') = RegisteredScene(nodes)
     /\ (bIsExporting /\ ~bIsExporting') => ExportDataEmpty']_vars

\* A failed synchronous session on a tree of two nodes has ended; an export
\* object of the child had been buffered and built into the pools.
C37_Witness ==
  /\ IdleAfterPost /\ lastOp = "Export:returned" /\ ~result.bSuccess
  /\ Len(nodes) >= 2 /\ nodes[2].exportObjects # <<>>
  /\ \E k \in DOMAIN asked :
       asked[k].node = 2 /\ GatherVerdict(asked[k].response) = "buffered"
  /\ ExportDataEmpty

=============================================================================
